---- MODULE Spec2Model ----
(***************************************************************************)
(* The plan pipeline of rag_neo4j/ask.py: the planner's raw plan, the      *)
(* validator validate_and_fix_plan, the compiler cypher_from_plan and the  *)
(* driver main that runs them in sequence.                                 *)
(*                                                                         *)
(* JSON values are tagged records, so that a value of any JSON type can    *)
(* stand in any field of a plan, as in the output of an external planner:  *)
(*   Str(s), Num(n), Null (Python None), List(l), Obj(o).                  *)
(* A Python dict is a function from its keys to JSON values.  A Python     *)
(* exception is the name of its type; "" stands for no exception.          *)
(***************************************************************************)
EXTENDS Integers, Sequences, FiniteSets, TLC

VARIABLES
    ALLOWED_FILTERS,   \* set(SCHEMA["allow_filters"])
    ALLOWED_GROUP,     \* set(SCHEMA["allow_group_by"])
    ALLOWED_ORDER,     \* set(SCHEMA["allow_order_by"])
    SYN,               \* SYN["anchors"]: lower-case phrase -> canonical name
    user_q,            \* the question of this run (main)
    pc,                \* the position of main
    raw_plan,          \* main: raw_plan
    fixed_plan,        \* main: fixed_plan
    err,               \* main: err
    compiled,          \* main: (cypher, params)
    rows,              \* main: rows
    final,             \* main: final
    out,               \* what main has printed
    run_cypher_calls,  \* calls of run_cypher in this run
    ollama_calls,      \* calls of ollama_generate in this run
    exc,               \* the exception that ended main, "" when none
    year,              \* month_eq / q_month: year
    month,             \* month_eq / q_month: month
    window,            \* the query and parameters compiled for that month
    run_a,             \* one plan on its way through validation and compilation
    run_b,             \* a second plan of the same shape on the same way
    argv,              \* neo4j_qa.py main: sys.argv[1:]
    question,          \* neo4j_qa.py main: question
    qa_pc,             \* the position of neo4j_qa.py's main
    built,             \* neo4j_qa.py main: cypher, params, desc, intent, term
    qa_rows,           \* neo4j_qa.py main: rows
    summary,           \* answer_from_rows: summary
    qa_final,          \* neo4j_qa.py main: final
    qa_out,            \* what neo4j_qa.py's main has printed
    qa_exit,           \* how neo4j_qa.py's main was left, "" while it runs
    qa_calls,          \* calls of run_cypher and call_ollama by neo4j_qa.py's main
    conn_pc,           \* the position inside run_cypher or import_via_driver
    drivers_open,      \* drivers created and not closed
    sessions_open,     \* sessions opened and not closed
    conn_pending,      \* the return or the exception on its way out of the call
    conn_outcomes,     \* how each call so far has ended
    g_pc,              \* the graph store: which overlap query has run on it
    g_events,          \* the Event nodes of the term; id(e) is the position
    g_rows,            \* the rows the overlap query returned
    date_chunk,        \* normalize_date_chunk: date_chunk
    default_year,      \* normalize_date_chunk: default_year
    normalized,        \* what normalize_date_chunk returned in each script
    extract_text,      \* extract_month_year / extract_month: the question text
    fallback_year,     \* extract_month_year: fallback_year
    extracted          \* what each of the two extractors returned

month_vars == <<year, month, window>>

pair_vars == <<run_a, run_b>>

qa_vars == <<argv, question, qa_pc, built, qa_rows, summary, qa_final, qa_out, qa_exit, qa_calls>>

conn_vars == <<conn_pc, drivers_open, sessions_open, conn_pending, conn_outcomes>>

graph_vars == <<g_pc, g_events, g_rows>>

etl_vars == <<date_chunk, default_year, normalized>>

extract_vars == <<extract_text, fallback_year, extracted>>

\* the state outside a run of ask.py's main
not_ask == <<month_vars, pair_vars, qa_vars, conn_vars, graph_vars, etl_vars, extract_vars>>

vars == <<ALLOWED_FILTERS, ALLOWED_GROUP, ALLOWED_ORDER, SYN, user_q, pc,
          raw_plan, fixed_plan, err, compiled, rows, final, out,
          run_cypher_calls, ollama_calls, exc, not_ask>>

config == <<ALLOWED_FILTERS, ALLOWED_GROUP, ALLOWED_ORDER, SYN>>

---------------------------------------------------------------------------
(* JSON values and the Python operations on them that the code uses.       *)

Str(s) == [k |-> "str", s |-> s]
Num(n) == [k |-> "int", n |-> n]
Null == [k |-> "null"]
List(l) == [k |-> "list", l |-> l]
Obj(o) == [k |-> "obj", o |-> o]

\* bool(v)
Truthy(v) ==
    CASE v.k = "null" -> FALSE
      [] v.k = "str" -> v.s # ""
      [] v.k = "int" -> v.n # 0
      [] v.k = "list" -> Len(v.l) > 0
      [] v.k = "obj" -> DOMAIN v.o # {}

\* d.get(key): None when the key is absent
Get(d, key) == IF key \in DOMAIN d.o THEN d.o[key] ELSE Null

\* d.get(key, default)
GetOr(d, key, default) == IF key \in DOMAIN d.o THEN d.o[key] ELSE default

\* hash(v) succeeds: lists and dicts are unhashable
Hashable(v) == v.k \notin {"list", "obj"}

\* v in S, for a set S of strings and a hashable v
InSet(v, S) == v.k = "str" /\ v.s \in S

\* iter(v) succeeds
Iterable(v) == v.k \in {"list", "str"}

\* list(v) of an iterable v; the characters of a string are one-letter
\* strings, none of them an object or a name of an allow-list
Items(v) == IF v.k = "list" THEN v.l ELSE [i \in 1..Len(v.s) |-> Str("?")]

\* str.lower() on the strings of the model
Lower(s) ==
    CASE s = "Classes Start" -> "classes start"
      [] s = "Classes Begin" -> "classes begin"
      [] s = "First Day" -> "first day"
      [] s = "Reading Day" -> "reading day"
      [] s = " Finals Week " -> " finals week "
      [] s = "DESC" -> "desc"
      [] s = "Asc" -> "asc"
      [] OTHER -> s

\* str.upper() on the strings of the model
Upper(s) ==
    CASE s = "asc" -> "ASC"
      [] s = "desc" -> "DESC"
      [] s = "Asc" -> "ASC"
      [] s = "descending" -> "DESCENDING"
      [] OTHER -> s

\* str.strip() on the strings of the model
Strip(s) ==
    CASE s = " Finals Week " -> "Finals Week"
      [] s = " finals week " -> "finals week"
      [] OTHER -> s

---------------------------------------------------------------------------
(* validate_and_fix_plan                                                   *)

FILTER_KINDS == {"anchor_exact", "after_anchor", "before_anchor", "weekday_in",
                 "month_eq", "date_window", "same_day_pairs", "overlap_pairs"}

DEFAULT_SELECT == List(<<Str("name"), Str("start_date"), Str("end_date"), Str("source")>>)

CLARIFICATION == Obj([intent |-> Str("ask_clarification"), missing |-> List(<<Str("term")>>)])

NO_INTENT == Str("Planner did not return an intent.")

HasIntent(plan) == "intent" \in DOMAIN plan.o

MissingIntent_ReturnsPlan(plan) == [exc |-> "", plan |-> plan, err |-> Null, raw |-> plan]

\* return None, "Planner did not return an intent."
MissingIntent(plan) == [exc |-> "", plan |-> Null, err |-> NO_INTENT, raw |-> plan]

IsClarification(plan) == plan.o.intent = Str("ask_clarification")

TermMissing_None(term) == term.k = "null"

\* if not term
TermMissing(term) == ~Truthy(term)

AllowedFilter_All(t) == TRUE

\* t in ALLOWED_FILTERS
AllowedFilter(t) == InSet(t, ALLOWED_FILTERS)

NormalizeAnchor_LowerFallback(a) == IF a \in DOMAIN SYN THEN SYN[a] ELSE Lower(a)

\* SYN["anchors"].get(a.lower(), a)
NormalizeAnchor(a) == IF Lower(a) \in DOMAIN SYN THEN SYN[Lower(a)] ELSE a

\* One iteration of the loop over the raw filters: what it raises, whether it
\* keeps the filter, and the filter as the loop leaves it (the anchor is
\* normalized in place, in the raw plan's own object).
FixFilter(f) ==
    IF f.k # "obj" THEN [exc |-> "AttributeError", keep |-> FALSE, f |-> f]
    ELSE LET t == Get(f, "type") IN
         IF ~Hashable(t) THEN [exc |-> "TypeError", keep |-> FALSE, f |-> f]
         ELSE IF ~AllowedFilter(t) THEN [exc |-> "", keep |-> FALSE, f |-> f]
         ELSE IF "anchor_event" \in DOMAIN f.o /\ Truthy(f.o.anchor_event)
              THEN IF f.o.anchor_event.k # "str"
                   THEN [exc |-> "AttributeError", keep |-> FALSE, f |-> f]
                   ELSE [exc |-> "", keep |-> TRUE,
                         f |-> Obj([f.o EXCEPT !.anchor_event =
                                       Str(NormalizeAnchor(f.o.anchor_event.s))])]
              ELSE [exc |-> "", keep |-> TRUE, f |-> f]

\* The loop over the raw filters from position i on: fixed is fixed_filters
\* so far, seen the raw list with the filters already visited as the loop
\* left them.
RECURSIVE FixFiltersFrom(_, _, _, _)
FixFiltersFrom(fs, i, fixed, seen) ==
    IF i > Len(fs) THEN [exc |-> "", fixed |-> fixed, raw |-> seen]
    ELSE LET r == FixFilter(fs[i]) IN
         IF r.exc # "" THEN [exc |-> r.exc, fixed |-> fixed, raw |-> seen \o SubSeq(fs, i, Len(fs))]
         ELSE FixFiltersFrom(fs, i + 1,
                             IF r.keep THEN Append(fixed, r.f) ELSE fixed,
                             Append(seen, r.f))

FixFilters(plan) ==
    LET filters == GetOr(plan, "filters", List(<<>>)) IN
    IF ~Iterable(filters) THEN [exc |-> "TypeError", fixed |-> <<>>, raw |-> <<>>]
    ELSE FixFiltersFrom(Items(filters), 1, <<>>, <<>>)

\* [g for g in (plan.get("group_by") or []) if g in ALLOWED_GROUP]
RECURSIVE FixGroupFrom(_, _, _)
FixGroupFrom(gs, i, kept) ==
    IF i > Len(gs) THEN [exc |-> "", group_by |-> kept]
    ELSE IF ~Hashable(gs[i]) THEN [exc |-> "TypeError", group_by |-> kept]
    ELSE FixGroupFrom(gs, i + 1,
                      IF InSet(gs[i], ALLOWED_GROUP) THEN Append(kept, gs[i]) ELSE kept)

FixGroupBy(plan) ==
    LET g == Get(plan, "group_by") IN
    IF ~Truthy(g) THEN [exc |-> "", group_by |-> <<>>]
    ELSE IF ~Iterable(g) THEN [exc |-> "TypeError", group_by |-> <<>>]
    ELSE FixGroupFrom(Items(g), 1, <<>>)

FixDir_Keep(ob) ==
    LET d == Get(ob, "dir") IN
    IF ~Truthy(d) THEN [exc |-> "", dir |-> "asc"]
    ELSE IF d.k # "str" THEN [exc |-> "AttributeError", dir |-> ""]
    ELSE [exc |-> "", dir |-> d.s]

\* ob.get("dir","asc").lower() if ob.get("dir") else "asc"
FixDir(ob) ==
    LET d == Get(ob, "dir") IN
    IF ~Truthy(d) THEN [exc |-> "", dir |-> "asc"]
    ELSE IF d.k # "str" THEN [exc |-> "AttributeError", dir |-> ""]
    ELSE [exc |-> "", dir |-> Lower(d.s)]

RECURSIVE FixOrderFrom(_, _, _)
FixOrderFrom(obs, i, kept) ==
    IF i > Len(obs) THEN [exc |-> "", order_by |-> kept]
    ELSE IF obs[i].k # "obj" THEN [exc |-> "AttributeError", order_by |-> kept]
    ELSE LET fld == Get(obs[i], "field") IN
         IF ~Hashable(fld) THEN [exc |-> "TypeError", order_by |-> kept]
         ELSE IF ~InSet(fld, ALLOWED_ORDER) THEN FixOrderFrom(obs, i + 1, kept)
         ELSE LET d == FixDir(obs[i]) IN
              IF d.exc # "" THEN [exc |-> d.exc, order_by |-> kept]
              ELSE FixOrderFrom(obs, i + 1,
                                Append(kept, Obj([field |-> fld, dir |-> Str(d.dir)])))

FixOrderBy(plan) ==
    LET o == Get(plan, "order_by") IN
    IF ~Truthy(o) THEN [exc |-> "", order_by |-> <<>>]
    ELSE IF ~Iterable(o) THEN [exc |-> "TypeError", order_by |-> <<>>]
    ELSE FixOrderFrom(Items(o), 1, <<>>)

\* plan.get("select") or ["name","start_date","end_date","source"]
FixSelect(plan) == IF Truthy(Get(plan, "select")) THEN Get(plan, "select") ELSE DEFAULT_SELECT

\* The raw plan as the call leaves it: the filters it visited are normalized
\* in place.
Mutated(plan, rawFilters) ==
    IF "filters" \in DOMAIN plan.o /\ plan.o.filters.k = "list"
    THEN Obj([plan.o EXCEPT !.filters = List(rawFilters)])
    ELSE plan

\* validate_and_fix_plan(plan): the pair (plan, err) it returns, or the
\* exception it raises, and the argument as the call leaves it.
validate_and_fix_plan(plan) ==
    IF ~HasIntent(plan)
    THEN MissingIntent(plan)
    ELSE IF IsClarification(plan)
    THEN [exc |-> "", plan |-> plan, err |-> Null, raw |-> plan]
    ELSE LET term == Get(plan, "term") IN
    IF TermMissing(term)
    THEN [exc |-> "", plan |-> CLARIFICATION, err |-> Null, raw |-> plan]
    ELSE LET ff == FixFilters(plan)
             raw == Mutated(plan, ff.raw) IN
    IF ff.exc # "" THEN [exc |-> ff.exc, plan |-> Null, err |-> Null, raw |-> raw]
    ELSE LET gb == FixGroupBy(plan) IN
    IF gb.exc # "" THEN [exc |-> gb.exc, plan |-> Null, err |-> Null, raw |-> raw]
    ELSE LET ob == FixOrderBy(plan) IN
    IF ob.exc # "" THEN [exc |-> ob.exc, plan |-> Null, err |-> Null, raw |-> raw]
    ELSE [exc |-> "",
          plan |-> Obj([intent |-> Str("query"),
                        term |-> term,
                        filters |-> List(ff.fixed),
                        group_by |-> List(gb.group_by),
                        select |-> FixSelect(plan),
                        order_by |-> List(ob.order_by),
                        limit |-> Get(plan, "limit")]),
          err |-> Null,
          raw |-> raw]

---------------------------------------------------------------------------
(* cypher_from_plan                                                        *)

ANCHOR_KINDS == {"after_anchor", "before_anchor", "anchor_exact"}

\* params[key] = v
Put(d, key, v) == [x \in DOMAIN d \cup {key} |-> IF x = key THEN v ELSE d[x]]

RECURSIVE Join(_, _)
\* sep.join(parts)
Join(parts, sep) ==
    IF Len(parts) = 0 THEN ""
    ELSE IF Len(parts) = 1 THEN parts[1]
    ELSE parts[1] \o sep \o Join(Tail(parts), sep)

Digit(d) ==
    CASE d = 0 -> "0" [] d = 1 -> "1" [] d = 2 -> "2" [] d = 3 -> "3" [] d = 4 -> "4"
      [] d = 5 -> "5" [] d = 6 -> "6" [] d = 7 -> "7" [] d = 8 -> "8" [] d = 9 -> "9"

RECURSIVE Digits(_)
Digits(n) == IF n < 10 THEN Digit(n) ELSE Digits(n \div 10) \o Digit(n % 10)

RECURSIVE ZeroPad(_, _)
ZeroPad(s, w) == IF Len(s) >= w THEN s ELSE ZeroPad("0" \o s, w)

\* f"{n:0wd}" of an int n
FormatD_NoPad(n, w) == IF n >= 0 THEN Digits(n) ELSE "-" \o Digits(-n)

FormatD(n, w) == IF n >= 0 THEN ZeroPad(Digits(n), w) ELSE "-" \o ZeroPad(Digits(-n), w - 1)

\* what f"{v:04d}" raises: the d format code takes an int only
FormatExc(v) ==
    CASE v.k = "int" -> ""
      [] v.k = "str" -> "ValueError"
      [] OTHER -> "TypeError"

PRELUDE == "MATCH (:Term {name:$term})-[:HAS_EVENT]->(e:Event)\n"

ANCHOR_PRELUDE ==
    "MATCH (:Term {name:$term})-[:HAS_EVENT]->(a:Event {name:$anchor})\n"
    \o "WITH a.start_date AS anchor_date\n"
    \o "MATCH (:Term {name:$term})-[:HAS_EVENT]->(e:Event)\n"

SAME_DAY_QUERY ==
    "MATCH (:Term {name:$term})-[:HAS_EVENT]->(a:Event),\n"
    \o "      (:Term {name:$term})-[:HAS_EVENT]->(b:Event)\n"
    \o "WHERE a.start_date = b.start_date AND id(a) < id(b)\n"
    \o "RETURN a.name AS event1, toString(a.start_date) AS date, b.name AS event2\n"
    \o "ORDER BY date\n"

OVERLAP_QUERY ==
    "MATCH (:Term {name:$term})-[:HAS_EVENT]->(a:Event),\n"
    \o "      (:Term {name:$term})-[:HAS_EVENT]->(b:Event)\n"
    \o "WHERE a.start_date <= b.end_date AND b.start_date <= a.end_date AND id(a) < id(b)\n"
    \o "RETURN a.name AS event1, toString(a.start_date) AS a_start, toString(a.end_date) AS a_end,\n"
    \o "       b.name AS event2, toString(b.start_date) AS b_start, toString(b.end_date) AS b_end\n"
    \o "ORDER BY a_start, b_start\n"

\* f["type"] of a filter of a validated plan
TypeOf(f) == f.o.type.s

IsAnchorFilter(f) == TypeOf(f) \in ANCHOR_KINDS

HasType(filters, t) == \E i \in 1..Len(filters) : TypeOf(filters[i]) = t

AnchorClause_Inline(f) ==
    CASE TypeOf(f) = "after_anchor" -> "e.start_date > anchor_date"
      [] TypeOf(f) = "before_anchor" -> "e.start_date < anchor_date"
      [] TypeOf(f) = "anchor_exact" -> "e.name = '" \o f.o.anchor_event.s \o "'"
      [] OTHER -> ""

\* the clause the anchor loop appends for one filter, "" when none
AnchorClause(f) ==
    CASE TypeOf(f) = "after_anchor" -> "e.start_date > anchor_date"
      [] TypeOf(f) = "before_anchor" -> "e.start_date < anchor_date"
      [] TypeOf(f) = "anchor_exact" -> "e.name = $anchor"
      [] OTHER -> ""

RECURSIVE AnchorClauses(_)
AnchorClauses(filters) ==
    IF Len(filters) = 0 THEN <<>>
    ELSE (IF IsAnchorFilter(filters[1]) THEN <<AnchorClause(filters[1])>> ELSE <<>>)
         \o AnchorClauses(Tail(filters))

\* next(f for f in filters if f["type"] in (...))
FirstAnchor(filters) == SelectSeq(filters, IsAnchorFilter)[1]

\* The anchor block: the prelude, the first where clauses and the anchor
\* parameter, or the KeyError of f0["anchor_event"].
AnchorPart(filters, params) ==
    IF ~(\E i \in 1..Len(filters) : IsAnchorFilter(filters[i]))
    THEN [exc |-> "", prelude |-> PRELUDE, where |-> <<>>, params |-> params]
    ELSE LET f0 == FirstAnchor(filters) IN
         IF "anchor_event" \notin DOMAIN f0.o
         THEN [exc |-> "KeyError", prelude |-> PRELUDE, where |-> <<>>, params |-> params]
         ELSE [exc |-> "", prelude |-> ANCHOR_PRELUDE, where |-> AnchorClauses(filters),
               params |-> Put(params, "anchor", f0.o.anchor_event)]

\* One iteration of the loop over the non-anchor filters.
FilterClause(f, acc) ==
    LET t == TypeOf(f) IN
    IF t = "weekday_in" THEN
        IF "weekday" \notin DOMAIN f.o THEN [acc EXCEPT !.exc = "KeyError"]
        ELSE [acc EXCEPT !.params = Put(acc.params, "weekday", f.o.weekday),
                         !.where = Append(acc.where, "e.start_weekday = $weekday")]
    ELSE IF t = "month_eq" THEN
        IF "year" \notin DOMAIN f.o \/ "month" \notin DOMAIN f.o THEN [acc EXCEPT !.exc = "KeyError"]
        ELSE LET y == f.o.year
                 m == f.o.month IN
             IF FormatExc(y) # "" THEN [acc EXCEPT !.exc = FormatExc(y)]
             ELSE IF FormatExc(m) # "" THEN [acc EXCEPT !.exc = FormatExc(m)]
             ELSE LET start == FormatD(y.n, 4) \o "-" \o FormatD(m.n, 2) \o "-01"
                      end == IF m.n = 12 THEN FormatD(y.n + 1, 4) \o "-01-01"
                             ELSE FormatD(y.n, 4) \o "-" \o FormatD(m.n + 1, 2) \o "-01" IN
                  [acc EXCEPT !.params = Put(Put(acc.params, "start", Str(start)), "end", Str(end)),
                              !.where = Append(acc.where,
                                  "e.start_date >= date($start) AND e.start_date < date($end)")]
    ELSE IF t = "date_window" THEN
        IF "start" \notin DOMAIN f.o \/ "end" \notin DOMAIN f.o THEN [acc EXCEPT !.exc = "KeyError"]
        ELSE [acc EXCEPT !.params = Put(Put(acc.params, "win_start", f.o.start), "win_end", f.o.end),
                         !.where = Append(acc.where,
                             "e.start_date >= date($win_start) AND e.start_date <= date($win_end)")]
    ELSE acc

RECURSIVE FilterClauses(_, _, _)
FilterClauses(filters, i, acc) ==
    IF i > Len(filters) \/ acc.exc # "" THEN acc
    ELSE FilterClauses(filters, i + 1, FilterClause(filters[i], acc))

\* one column of the RETURN, "" for an entry that is no column
ReturnCol(c) ==
    IF c = Str("name") THEN "e.name AS name"
    ELSE IF c = Str("start_date") \/ c = Str("end_date")
         THEN "toString(e." \o c.s \o ") AS " \o c.s
    ELSE IF c = Str("source") THEN "e.source AS source"
    ELSE ""

RECURSIVE ReturnCols(_)
ReturnCols(cols) ==
    IF Len(cols) = 0 THEN <<>>
    ELSE (IF ReturnCol(cols[1]) # "" THEN <<ReturnCol(cols[1])>> ELSE <<>>)
         \o ReturnCols(Tail(cols))

GroupCols(group_by) ==
    (IF \E i \in 1..Len(group_by) : group_by[i] = Str("iso_week")
     THEN <<"e.start_date.week AS iso_week">> ELSE <<>>)
    \o (IF \E i \in 1..Len(group_by) : group_by[i] = Str("iso_year")
        THEN <<"e.start_date.year AS iso_year">> ELSE <<>>)

\* one entry of the ORDER BY, "" for a field that is no sort key
OrderItem(item) ==
    LET fld == item.o.field.s
        direc == Upper(GetOr(item, "dir", Str("asc")).s) IN
    IF fld \in {"start_date", "end_date"} THEN "e." \o fld \o " " \o direc
    ELSE IF fld = "name" THEN "e.name " \o direc
    ELSE ""

RECURSIVE OrderItems(_)
OrderItems(order_by) ==
    IF Len(order_by) = 0 THEN <<>>
    ELSE (IF OrderItem(order_by[1]) # "" THEN <<OrderItem(order_by[1])>> ELSE <<>>)
         \o OrderItems(Tail(order_by))

DEFAULT_ORDER == <<Obj([field |-> Str("start_date"), dir |-> Str("asc")])>>

NO_PARAMS == [term |-> Null]

\* where_clauses and params after the two loops over the filters, or the
\* exception one of them raises
WhereClauses(plan) ==
    LET filters == plan.o.filters.l
        ap == AnchorPart(filters, [term |-> plan.o.term]) IN
    IF ap.exc # "" THEN [exc |-> ap.exc, prelude |-> ap.prelude, params |-> ap.params, where |-> <<>>]
    ELSE LET fc == FilterClauses(filters, 1, [exc |-> "", params |-> ap.params, where |-> ap.where])
         IN [exc |-> fc.exc, prelude |-> ap.prelude, params |-> fc.params, where |-> fc.where]

\* where_str
WhereStr(where_clauses) ==
    IF Len(where_clauses) > 0 THEN "WHERE " \o Join(where_clauses, " AND ") \o "\n" ELSE ""

\* select_cols
SelectCols(plan) == IF Truthy(Get(plan, "select")) THEN Get(plan, "select") ELSE DEFAULT_SELECT

\* ret
ReturnStr(plan) ==
    "RETURN " \o Join(ReturnCols(Items(SelectCols(plan))) \o GroupCols(plan.o.group_by.l), ", ")
    \o "\n"

\* order, followed by a LIMIT clause when the plan carries a limit
OrderStr_WithLimit(plan) ==
    LET order_by == IF Truthy(Get(plan, "order_by")) THEN plan.o.order_by.l ELSE DEFAULT_ORDER
        ob == OrderItems(order_by) IN
    (IF Len(ob) > 0 THEN "ORDER BY " \o Join(ob, ", ") \o "\n" ELSE "")
    \o (IF Truthy(Get(plan, "limit")) THEN "LIMIT $limit\n" ELSE "")

\* order
OrderStr(plan) ==
    LET order_by == IF Truthy(Get(plan, "order_by")) THEN plan.o.order_by.l ELSE DEFAULT_ORDER
        ob == OrderItems(order_by) IN
    IF Len(ob) > 0 THEN "ORDER BY " \o Join(ob, ", ") \o "\n" ELSE ""

\* cypher_from_plan(plan), for a plan validate_and_fix_plan returned with
\* intent query: the pair (q, params), or the exception it raises.
cypher_from_plan(plan) ==
    LET term == plan.o.term
        filters == plan.o.filters.l
        wc == WhereClauses(plan) IN
    IF wc.exc # "" THEN [exc |-> wc.exc, q |-> "", params |-> NO_PARAMS]
    ELSE IF HasType(filters, "same_day_pairs")
    THEN [exc |-> "", q |-> SAME_DAY_QUERY, params |-> [term |-> term]]
    ELSE IF HasType(filters, "overlap_pairs")
    THEN [exc |-> "", q |-> OVERLAP_QUERY, params |-> [term |-> term]]
    ELSE IF ~Iterable(SelectCols(plan)) THEN [exc |-> "TypeError", q |-> "", params |-> NO_PARAMS]
    ELSE [exc |-> "",
          q |-> wc.prelude \o WhereStr(wc.where) \o ReturnStr(plan) \o OrderStr(plan),
          params |-> wc.params]

---------------------------------------------------------------------------
(* The inputs of a run: the configuration files, the question, and what    *)
(* the external planner answers.                                           *)

MaxFilters == 2
MaxRows == 1
MaxPhrases == 3
MaxSummaryRows == 2
MaxCalls == 3

ALL_GROUP == {"iso_year", "iso_week"}
ALL_ORDER == {"start_date", "end_date", "name"}

\* synonyms.json: every canonical name is left alone by a second lookup
SYN_PLAIN == ("classes start" :> "Classes Begin") @@ ("classes begin" :> "Classes Begin")

\* synonyms.json with a canonical name that is itself a key of another entry
SYN_CHAINED == ("classes start" :> "Classes Begin") @@ ("classes begin" :> "First Day")

\* schema.json and synonyms.json as loaded at import
Configs ==
    { [filters |-> FILTER_KINDS, group |-> ALL_GROUP, order |-> ALL_ORDER, syn |-> SYN_PLAIN],
      [filters |-> FILTER_KINDS \ {"date_window", "overlap_pairs"}, group |-> {"iso_week"},
       order |-> {"start_date", "name", "source"}, syn |-> SYN_PLAIN],
      [filters |-> FILTER_KINDS, group |-> ALL_GROUP, order |-> ALL_ORDER, syn |-> SYN_CHAINED] }

Questions == {"When do classes start in Fall 2025?", "When do classes start?"}

\* extract_term(text): the season and year the question names, None when none
extract_term(text) ==
    IF text = "When do classes start in Fall 2025?" THEN Str("Fall 2025") ELSE Null

\* a key the planner left out of its JSON object
Absent == [k |-> "absent"]

\* the JSON object with the keys of r that are not Absent
Prune(r) == Obj([key \in {x \in DOMAIN r : r[x] # Absent} |-> r[key]])

F(type) == [type |-> Str(type), anchor_event |-> Absent, weekday |-> Absent, year |-> Absent,
            month |-> Absent, start |-> Absent, end |-> Absent, pattern |-> Absent]

\* the entries the planner may put in "filters"
FilterSamples ==
    { Prune([F("after_anchor") EXCEPT !.anchor_event = Str("classes start")]),
      Prune([F("before_anchor") EXCEPT !.anchor_event = Str("Classes Start")]),
      Prune([F("anchor_exact") EXCEPT !.anchor_event = Str(" Finals Week ")]),
      Prune(F("after_anchor")),
      Prune([F("before_anchor") EXCEPT !.anchor_event = Num(5)]),
      Prune([F("weekday_in") EXCEPT !.weekday = Str("Monday")]),
      Prune([F("weekday_in") EXCEPT !.weekday = Str("Friday")]),
      Prune(F("weekday_in")),
      Prune([F("month_eq") EXCEPT !.year = Num(2025), !.month = Num(12)]),
      Prune([F("month_eq") EXCEPT !.year = Num(2026), !.month = Num(5)]),
      Prune([F("month_eq") EXCEPT !.year = Str("2025"), !.month = Num(9)]),
      Prune([F("date_window") EXCEPT !.start = Str("2025-09-01"), !.end = Str("2025-09-30")]),
      Prune([F("date_window") EXCEPT !.start = Str("2026-01-10"), !.end = Str("2026-02-01")]),
      Prune([F("date_window") EXCEPT !.start = Str("2025-09-01")]),
      Prune(F("same_day_pairs")),
      Prune(F("overlap_pairs")),
      Prune([F("regex") EXCEPT !.pattern = Str(".*")]),
      Str("weekday_in") }

FilterLists == UNION { [1..n -> FilterSamples] : n \in 0..MaxFilters }

\* intent, term and missing as the planner may give them
Heads ==
    { [intent |-> Absent, term |-> Str("Fall 2025"), missing |-> Absent],
      [intent |-> Str("ask_clarification"), term |-> Absent, missing |-> Absent],
      [intent |-> Str("ask_clarification"), term |-> Absent, missing |-> List(<<Str("term")>>)],
      [intent |-> Str("ask_clarification"), term |-> Absent, missing |-> Null],
      [intent |-> Str("query"), term |-> Absent, missing |-> Absent],
      [intent |-> Str("lookup"), term |-> Null, missing |-> List(<<>>)],
      [intent |-> Str("query"), term |-> Str(""), missing |-> Absent],
      [intent |-> Str("query"), term |-> Str("Fall 2025"), missing |-> Absent],
      [intent |-> Str("lookup"), term |-> Str("Fall 2025"), missing |-> List(<<>>)] }

GroupBySamples ==
    { Absent, Null, Num(3),
      List(<<Str("iso_week"), Str("term"), Str("iso_year")>>),
      List(<<List(<<Str("iso_week")>>)>>) }

OrderBySamples ==
    { Absent, Num(7),
      List(<<Obj([field |-> Str("start_date"), dir |-> Str("DESC")]),
             Obj([field |-> Str("source"), dir |-> Str("asc")]),
             Obj([field |-> Str("name")])>>),
      List(<<Obj([field |-> Str("end_date"), dir |-> Str("descending")])>>),
      List(<<Obj([field |-> Str("end_date"), dir |-> Null]),
             Obj([field |-> Str("name"), dir |-> Str("Asc")])>>),
      List(<<Obj([field |-> Str("name"), dir |-> Num(1)])>>),
      List(<<Str("start_date")>>) }

SelectSamples ==
    { Absent, Num(5), Str("name"),
      List(<<Str("start_date"), Str("name")>>),
      List(<<Str("weekday")>>) }

LimitSamples == { Absent, Num(10) }

MkPlan(h, filters, group_by, order_by, select, limit) ==
    Prune([intent |-> h.intent, term |-> h.term, missing |-> h.missing, filters |-> filters,
           group_by |-> group_by, order_by |-> order_by, select |-> select, limit |-> limit])

\* the plans that vary the filters
FilterPlans ==
    { MkPlan(h, List(fs), Absent, Absent, Absent, Absent) : h \in Heads, fs \in FilterLists }

\* the plans that vary the other keys
ShapePlans ==
    { MkPlan(h, fs, g, o, s, l) :
        h \in Heads, fs \in {Absent, Null, Num(0)},
        g \in GroupBySamples, o \in OrderBySamples, s \in SelectSamples, l \in LimitSamples }

\* the non-empty JSON objects the planner may answer with
RawPlans == FilterPlans \cup ShapePlans

---------------------------------------------------------------------------
(* main                                                                    *)

DEGRADED(term) ==
    Obj([intent |-> Str("query"), term |-> term, filters |-> List(<<>>),
         group_by |-> List(<<>>), select |-> DEFAULT_SELECT,
         order_by |-> List(DEFAULT_ORDER), limit |-> Null])

NOT_FOUND == "I couldn't find matching events for that question in the graph."

NOT_COMPILED == [q |-> "", params |-> NO_PARAMS]

\* no month has been compiled
NO_WINDOW == [via |-> "", exc |-> "", q |-> "", params |-> NO_PARAMS]

\* the month compiler is not in use
MonthIdle == year = 2025 /\ month = 1 /\ window = NO_WINDOW

\* no plan is on its way
NO_RUN == [pc |-> "off", plan |-> Null, exc |-> "", q |-> "", params |-> NO_PARAMS]

PairIdle == run_a = NO_RUN /\ run_b = NO_RUN

\* build_query_from_question has not run
NOT_BUILT == [cypher |-> "", params |-> NO_PARAMS, desc |-> "", intent |-> "", term |-> ""]

NO_CALLS == [run_cypher |-> 0, call_ollama |-> 0]

\* neo4j_qa.py's main is not running
QAIdle ==
    /\ argv = <<>>
    /\ question = ""
    /\ qa_pc = "off"
    /\ built = NOT_BUILT
    /\ qa_rows = <<>>
    /\ summary = ""
    /\ qa_final = ""
    /\ qa_out = <<>>
    /\ qa_exit = ""
    /\ qa_calls = NO_CALLS

\* no call has been made, and nothing is open
ConnIdle ==
    /\ conn_pc = "idle"
    /\ drivers_open = 0
    /\ sessions_open = 0
    /\ conn_pending = ""
    /\ conn_outcomes = <<>>

\* the graph store is not in use
GraphIdle ==
    /\ g_pc = "off"
    /\ g_events = <<>>
    /\ g_rows = <<>>

NOT_NORMALIZED == [week2 |-> "", week4 |-> ""]

\* no date chunk is being normalized
EtlIdle ==
    /\ date_chunk = ""
    /\ default_year = 2025
    /\ normalized = NOT_NORMALIZED

NOT_EXTRACTED == [ask |-> <<>>, qa |-> <<>>]

\* no text is being handed to the month extractors
ExtractIdle ==
    /\ extract_text = ""
    /\ fallback_year = Null
    /\ extracted = NOT_EXTRACTED

Init ==
    /\ MonthIdle
    /\ PairIdle
    /\ QAIdle
    /\ ConnIdle
    /\ GraphIdle
    /\ EtlIdle
    /\ ExtractIdle
    /\ \E c \in Configs :
          /\ ALLOWED_FILTERS = c.filters
          /\ ALLOWED_GROUP = c.group
          /\ ALLOWED_ORDER = c.order
          /\ SYN = c.syn
    /\ user_q \in Questions
    /\ pc = "start"
    /\ raw_plan = Null
    /\ fixed_plan = Null
    /\ err = Null
    /\ compiled = NOT_COMPILED
    /\ rows = <<>>
    /\ final = ""
    /\ out = <<>>
    /\ run_cypher_calls = 0
    /\ ollama_calls = 0
    /\ exc = ""

\* no exception has ended the run
Running == exc = ""

\* an exception leaves main: the run ends with a traceback, at the position
\* of the call that raised
Crash(e) == exc' = e /\ UNCHANGED pc

\* plan_question_with_llm: the planner call raises
PlanFails ==
    /\ pc = "start"
    /\ Running
    /\ ollama_calls' = ollama_calls + 1
    /\ Crash("RequestException")
    /\ UNCHANGED <<not_ask, config, user_q, raw_plan, fixed_plan, err, compiled, rows, final, out,
                   run_cypher_calls>>

\* plan_question_with_llm: the planner's text holds no JSON object, or an
\* empty one
PlanFallback ==
    /\ pc = "start"
    /\ Running
    /\ ollama_calls' = ollama_calls + 1
    /\ raw_plan' = IF Truthy(extract_term(user_q)) THEN DEGRADED(extract_term(user_q))
                   ELSE CLARIFICATION
    /\ pc' = "planned"
    /\ UNCHANGED <<not_ask, config, user_q, fixed_plan, err, compiled, rows, final, out,
                   run_cypher_calls, exc>>

\* plan_question_with_llm: the planner's text holds a non-empty JSON object
PlanFromLLM ==
    /\ pc = "start"
    /\ Running
    /\ ollama_calls' = ollama_calls + 1
    /\ \E p \in RawPlans : raw_plan' = p
    /\ pc' = "planned"
    /\ UNCHANGED <<not_ask, config, user_q, fixed_plan, err, compiled, rows, final, out,
                   run_cypher_calls, exc>>

\* fixed_plan, err = validate_and_fix_plan(raw_plan)
Validate ==
    /\ pc = "planned"
    /\ Running
    /\ LET r == validate_and_fix_plan(raw_plan) IN
         /\ raw_plan' = r.raw
         /\ IF r.exc # ""
            THEN Crash(r.exc) /\ UNCHANGED <<fixed_plan, err>>
            ELSE pc' = "validated" /\ fixed_plan' = r.plan /\ err' = r.err /\ UNCHANGED exc
    /\ UNCHANGED <<not_ask, config, user_q, compiled, rows, final, out, run_cypher_calls, ollama_calls>>

\* ', '.join(missing): a TypeError unless missing is a string or a list of
\* strings
JoinMissing(missing) ==
    IF ~Iterable(missing) THEN [exc |-> "TypeError", text |-> ""]
    ELSE IF \E i \in 1..Len(Items(missing)) : Items(missing)[i].k # "str"
    THEN [exc |-> "TypeError", text |-> ""]
    ELSE [exc |-> "", text |-> Join([i \in 1..Len(Items(missing)) |-> Items(missing)[i].s], ", ")]

\* if err: ...; return
ReportError ==
    /\ pc = "validated"
    /\ Running
    /\ Truthy(err)
    /\ out' = Append(out, "Planner error: " \o err.s)
    /\ pc' = "done"
    /\ UNCHANGED <<not_ask, config, user_q, raw_plan, fixed_plan, err, compiled, rows, final,
                   run_cypher_calls, ollama_calls, exc>>

\* if fixed_plan["intent"] == "ask_clarification": ...; return
AskClarification ==
    /\ pc = "validated"
    /\ Running
    /\ ~Truthy(err)
    /\ IsClarification(fixed_plan)
    /\ LET j == JoinMissing(GetOr(fixed_plan, "missing", List(<<Str("term")>>))) IN
         IF j.exc # "" THEN Crash(j.exc) /\ UNCHANGED out
         ELSE /\ out' = Append(out, "Need more info: please specify " \o j.text
                                    \o " (e.g., 'Fall 2025').")
              /\ pc' = "done"
              /\ UNCHANGED exc
    /\ UNCHANGED <<not_ask, config, user_q, raw_plan, fixed_plan, err, compiled, rows, final,
                   run_cypher_calls, ollama_calls>>

\* cypher, params = cypher_from_plan(fixed_plan)
Compile ==
    /\ pc = "validated"
    /\ Running
    /\ ~Truthy(err)
    /\ ~IsClarification(fixed_plan)
    /\ LET r == cypher_from_plan(fixed_plan) IN
         IF r.exc # "" THEN Crash(r.exc) /\ UNCHANGED compiled
         ELSE pc' = "compiled" /\ compiled' = [q |-> r.q, params |-> r.params] /\ UNCHANGED exc
    /\ UNCHANGED <<not_ask, config, user_q, raw_plan, fixed_plan, err, rows, final, out,
                   run_cypher_calls, ollama_calls>>

\* rows = run_cypher(cypher, params): the store answers with rows
RunCypher ==
    /\ pc = "compiled"
    /\ Running
    /\ run_cypher_calls' = run_cypher_calls + 1
    /\ \E n \in 0..MaxRows : rows' = [i \in 1..n |-> "row"]
    /\ pc' = "ran"
    /\ UNCHANGED <<not_ask, config, user_q, raw_plan, fixed_plan, err, compiled, final, out,
                   ollama_calls, exc>>

\* rows = run_cypher(cypher, params): the driver raises
RunCypherFails ==
    /\ pc = "compiled"
    /\ Running
    /\ run_cypher_calls' = run_cypher_calls + 1
    /\ Crash("ServiceUnavailable")
    /\ UNCHANGED <<not_ask, config, user_q, raw_plan, fixed_plan, err, compiled, rows, final, out,
                   ollama_calls>>

\* the heading main prints over the rows
ResultsHeading ==
    IF \E i \in 1..Len(fixed_plan.o.group_by.l) :
          fixed_plan.o.group_by.l[i] \in {Str("iso_week"), Str("iso_year")}
    THEN "(Results grouped by ISO week)" ELSE "(Results)"

\* final = answer_from_rows(user_q, rows) with no rows, and the print
AnswerNotFound ==
    /\ pc = "ran"
    /\ Running
    /\ Len(rows) = 0
    /\ final' = NOT_FOUND
    /\ out' = Append(out, NOT_FOUND)
    /\ pc' = "done"
    /\ UNCHANGED <<not_ask, config, user_q, raw_plan, fixed_plan, err, compiled, rows,
                   run_cypher_calls, ollama_calls, exc>>

\* answer_from_rows handing the rows to the model whether or not there are any
AnswerFromLLM_Always ==
    /\ pc = "ran"
    /\ Running
    /\ ollama_calls' = ollama_calls + 1
    /\ final' = "answer"
    /\ out' = out \o <<"answer", ResultsHeading>>
    /\ pc' = "done"
    /\ UNCHANGED <<not_ask, config, user_q, raw_plan, fixed_plan, err, compiled, rows,
                   run_cypher_calls, exc>>

\* final = answer_from_rows(user_q, rows) with rows: the model writes the
\* answer, and main prints it and the rows
AnswerFromLLM ==
    /\ pc = "ran"
    /\ Running
    /\ Len(rows) > 0
    /\ ollama_calls' = ollama_calls + 1
    /\ final' = "answer"
    /\ out' = out \o <<"answer", ResultsHeading>>
    /\ pc' = "done"
    /\ UNCHANGED <<not_ask, config, user_q, raw_plan, fixed_plan, err, compiled, rows,
                   run_cypher_calls, exc>>

\* final = answer_from_rows(user_q, rows) with rows: the model call raises
AnswerFails ==
    /\ pc = "ran"
    /\ Running
    /\ Len(rows) > 0
    /\ ollama_calls' = ollama_calls + 1
    /\ Crash("RequestException")
    /\ UNCHANGED <<not_ask, config, user_q, raw_plan, fixed_plan, err, compiled, rows, final, out,
                   run_cypher_calls>>

Next ==
    \/ PlanFails
    \/ PlanFallback
    \/ PlanFromLLM
    \/ Validate
    \/ ReportError
    \/ AskClarification
    \/ Compile
    \/ RunCypher
    \/ RunCypherFails
    \/ AnswerNotFound
    \/ AnswerFromLLM
    \/ AnswerFails

Spec == Init /\ [][Next]_vars

---------------------------------------------------------------------------
(* Properties of validate_and_fix_plan, cypher_from_plan and main.         *)
(* At pc = "planned" the raw plan is the planner's; an exception there is  *)
(* one validate_and_fix_plan raised.  At pc = "validated" an exception is  *)
(* one the clarification message or cypher_from_plan raised.               *)

IsQueryPlan(p) == p # Null /\ p.o.intent = Str("query")

IsClarificationPlan(p) == p # Null /\ p.o.intent = Str("ask_clarification")

\* the raw plan's filter list, empty when the plan has none to iterate
RawFilters(p) ==
    IF "filters" \in DOMAIN p.o /\ Iterable(p.o.filters) THEN Items(p.o.filters) ELSE <<>>

\* the filter is an object whose type is a kind of the allow-list
IsAllowedKind(f) ==
    /\ f.k = "obj"
    /\ "type" \in DOMAIN f.o
    /\ f.o.type.k = "str"
    /\ f.o.type.s \in ALLOWED_FILTERS

\* the two filters agree on every key but anchor_event
SameButAnchor(f, g) ==
    /\ DOMAIN f.o = DOMAIN g.o
    /\ \A key \in DOMAIN f.o \ {"anchor_event"} : f.o[key] = g.o[key]

\* Validate has just returned a query plan
ValidatedQuery == pc = "planned" /\ pc' = "validated" /\ IsQueryPlan(fixed_plan')

\* C1: for every raw plan without an intent key, whatever its other keys,
\* validate_and_fix_plan raises nothing and returns no plan together with
\* the planner error message.
C1_MissingIntentIsPlannerError ==
    (pc # "start" /\ "intent" \notin DOMAIN raw_plan.o) =>
        /\ pc = "planned" => exc = ""
        /\ pc # "planned" => fixed_plan = Null /\ err = NO_INTENT

\* C1: validation has answered a plan that has filters and no intent.
C1_Witness ==
    /\ pc = "validated"
    /\ "intent" \notin DOMAIN raw_plan.o
    /\ Len(RawFilters(raw_plan)) > 0
    /\ fixed_plan = Null
    /\ err = NO_INTENT

TermAbsentOrEmpty(p) == "term" \notin DOMAIN p.o \/ p.o.term = Null \/ p.o.term = Str("")

\* C2: for every raw plan whose intent is not ask_clarification and whose
\* term is absent, null or empty, validate_and_fix_plan raises nothing and
\* returns exactly {intent: ask_clarification, missing: [term]} with no
\* error, whatever filters, group_by, order_by, select and limit it carries.
C2_MissingTermIsClarification ==
    (/\ pc # "start"
     /\ "intent" \in DOMAIN raw_plan.o
     /\ raw_plan.o.intent # Str("ask_clarification")
     /\ TermAbsentOrEmpty(raw_plan)) =>
        /\ pc = "planned" => exc = ""
        /\ pc # "planned" => fixed_plan = CLARIFICATION /\ err = Null

\* C2: validation has coerced a plan with an empty term and two filters.
C2_Witness ==
    /\ pc = "validated"
    /\ Get(raw_plan, "intent") = Str("query")
    /\ Get(raw_plan, "term") = Str("")
    /\ Len(RawFilters(raw_plan)) = 2
    /\ fixed_plan = CLARIFICATION

\* C3: run_cypher is called at most once, and only after validation returned
\* a query plan and no error; when validation returned an error or a
\* clarification plan, the run raises nothing, executes no query and ends
\* with one printed message.
C3_QueryOnlyAfterValidQueryPlan ==
    /\ run_cypher_calls <= 1
    /\ run_cypher_calls = 1 => err = Null /\ IsQueryPlan(fixed_plan)
    /\ (pc \in {"validated", "done"} /\ (err # Null \/ IsClarificationPlan(fixed_plan))) =>
          /\ exc = ""
          /\ run_cypher_calls = 0
          /\ pc = "done" => Len(out) = 1

\* C4: validate_and_fix_plan raises no exception, for any raw plan.
C4_ValidateNeverRaises == pc = "planned" => exc = ""

\* C5: cypher_from_plan raises no exception on a query plan that
\* validate_and_fix_plan returned.
C5_CompileNeverRaises ==
    (pc = "validated" /\ err = Null /\ IsQueryPlan(fixed_plan)) => exc = ""

\* C6: when validation returns a query plan, every filter of it has a type
\* of the allow-list, and its filter list is the raw filter list without the
\* filters of other kinds, in the same order: each kept filter is the raw
\* one, its anchor_event normalized and nothing else changed.  After the
\* call the kept filters are the raw plan's own (normalized) objects.
C6_OnlyAllowedFiltersKept ==
    [][ValidatedQuery =>
          LET kept == SelectSeq(RawFilters(raw_plan), IsAllowedKind)
              fixed == fixed_plan'.o.filters.l IN
          /\ \A i \in 1..Len(fixed) : IsAllowedKind(fixed[i])
          /\ Len(fixed) = Len(kept)
          /\ \A i \in 1..Len(fixed) : SameButAnchor(fixed[i], kept[i])
          /\ fixed = SelectSeq(RawFilters(raw_plan'), IsAllowedKind)]_vars

\* C6: validation has returned a query plan that keeps one of two raw filters.
C6_Witness ==
    /\ pc = "validated"
    /\ IsQueryPlan(fixed_plan)
    /\ Len(RawFilters(raw_plan)) = 2
    /\ Len(fixed_plan.o.filters.l) = 1

\* validate_and_fix_plan returns its argument, with no error
Revalidates(p) ==
    LET r == validate_and_fix_plan(p) IN r.exc = "" /\ r.plan = p /\ r.err = Null

\* no canonical name of the synonym map is, lower-cased, a key that maps to
\* another name
SynClosed == \A key \in DOMAIN SYN : Lower(SYN[key]) \in DOMAIN SYN => SYN[Lower(SYN[key])] = SYN[key]

\* C7 as stated: for every synonym map and allow-list, validating a plan
\* that validation returned gives the same plan and no error.
C7_Idempotent == fixed_plan # Null => Revalidates(fixed_plan)

\* C7 as amended: for every allow-list, and every synonym map none of whose
\* canonical names is (lower-cased) a key mapped to another name, validating
\* a plan that validation returned gives the same plan and no error.
C7_IdempotentUnderClosedSynonyms == (fixed_plan # Null /\ SynClosed) => Revalidates(fixed_plan)

\* C7: under such a synonym map, validation has returned a query plan whose
\* anchor is a canonical name, with a sort direction it lower-cased or two
\* filters.
C7_Witness ==
    /\ pc = "validated"
    /\ SynClosed
    /\ IsQueryPlan(fixed_plan)
    /\ Len(fixed_plan.o.filters.l) = 2
    /\ Get(fixed_plan.o.filters.l[1], "anchor_event") = Str("Classes Begin")

\* the anchor C8 states: the canonical name of the key the lower-cased
\* anchor matches, else the anchor without its surrounding whitespace
ClaimedAnchor(a) == IF Lower(a) \in DOMAIN SYN THEN SYN[Lower(a)] ELSE Strip(a)

\* C8: validation replaces the anchor_event of every kept filter by the
\* canonical name its lower-cased text is a key of, and by the anchor
\* trimmed of surrounding whitespace when no key matches.
C8_AnchorCanonicalOrTrimmed ==
    [][ValidatedQuery =>
          LET kept == SelectSeq(RawFilters(raw_plan), IsAllowedKind)
              fixed == fixed_plan'.o.filters.l IN
          \A i \in 1..Len(kept) :
              ("anchor_event" \in DOMAIN kept[i].o /\ kept[i].o.anchor_event.k = "str"
               /\ kept[i].o.anchor_event.s # "") =>
                  fixed[i].o.anchor_event = Str(ClaimedAnchor(kept[i].o.anchor_event.s))]_vars

HasKind(p, kinds) == \E i \in 1..Len(p.o.filters.l) : p.o.filters.l[i].o.type.s \in kinds

\* C9: for every validated query plan with a same_day_pairs or
\* overlap_pairs filter, cypher_from_plan returns the fixed pairwise query
\* and the parameters {term}, whatever the other filters are.
C9_PairwiseShortCircuits ==
    (/\ pc \notin {"start", "planned"}
     /\ err = Null
     /\ IsQueryPlan(fixed_plan)
     /\ HasKind(fixed_plan, {"same_day_pairs", "overlap_pairs"})) =>
        /\ pc = "validated" => exc = ""
        /\ pc # "validated" =>
              compiled = [q |-> IF HasKind(fixed_plan, {"same_day_pairs"})
                                THEN SAME_DAY_QUERY ELSE OVERLAP_QUERY,
                          params |-> [term |-> fixed_plan.o.term]]

\* the where clause C10 states for an anchor filter
ClaimedAnchorClause(f) ==
    CASE f.o.type.s = "after_anchor" -> "e.start_date > anchor_date"
      [] f.o.type.s = "before_anchor" -> "e.start_date < anchor_date"
      [] f.o.type.s = "anchor_exact" -> "e.name = $anchor"

\* C10: for every validated query plan with anchor filters and no pairwise
\* filter, cypher_from_plan returns a query whose anchor parameter is the
\* anchor_event of the first anchor filter, that binds the anchor's date in
\* a preceding match, and whose WHERE starts with one clause per anchor
\* filter, in list order, joined with AND.
C10_FirstAnchorBindsOneClauseEach ==
    (/\ pc \notin {"start", "planned"}
     /\ err = Null
     /\ IsQueryPlan(fixed_plan)
     /\ HasKind(fixed_plan, ANCHOR_KINDS)
     /\ ~HasKind(fixed_plan, {"same_day_pairs", "overlap_pairs"})) =>
        /\ pc = "validated" => exc = ""
        /\ pc # "validated" =>
              LET anchors == SelectSeq(fixed_plan.o.filters.l,
                                       LAMBDA f : f.o.type.s \in ANCHOR_KINDS)
                  others == WhereClauses(fixed_plan).where
                  claimed == [i \in 1..Len(anchors) |-> ClaimedAnchorClause(anchors[i])] IN
              /\ "anchor" \in DOMAIN compiled.params
              /\ compiled.params.anchor = Get(anchors[1], "anchor_event")
              /\ compiled.q = ANCHOR_PRELUDE
                              \o WhereStr(claimed \o SubSeq(others, Len(anchors) + 1, Len(others)))
                              \o ReturnStr(fixed_plan) \o OrderStr(fixed_plan)

(***************************************************************************)
(* The month window: cypher_from_plan on a month_eq filter (ask.py) and    *)
(* q_month (neo4j_qa.py), applied to a year and a month.                   *)
(***************************************************************************)

ask_vars == <<config, user_q, pc, raw_plan, fixed_plan, err, compiled, rows, final, out,
              run_cypher_calls, ollama_calls, exc>>

\* ask.py's main is not running
AskIdle ==
    /\ ALLOWED_FILTERS = FILTER_KINDS
    /\ ALLOWED_GROUP = ALL_GROUP
    /\ ALLOWED_ORDER = ALL_ORDER
    /\ SYN = SYN_PLAIN
    /\ user_q = ""
    /\ pc = "off"
    /\ raw_plan = Null
    /\ fixed_plan = Null
    /\ err = Null
    /\ compiled = NOT_COMPILED
    /\ rows = <<>>
    /\ final = ""
    /\ out = <<>>
    /\ run_cypher_calls = 0
    /\ ollama_calls = 0
    /\ exc = ""

Years == {999, 2024, 2025, 9999}

Q_MONTH ==
    "\n    MATCH (:Term {name:$term})-[:HAS_EVENT]->(e:Event)\n"
    \o "    WHERE e.start_date >= date($start)\n"
    \o "      AND e.start_date <  date($end)\n"
    \o "    RETURN\n"
    \o "      e.name                 AS name,\n"
    \o "      toString(e.start_date) AS start_date,\n"
    \o "      toString(e.end_date)   AS end_date,\n"
    \o "      e.start_weekday        AS weekday,\n"
    \o "      e.source               AS source\n"
    \o "    ORDER BY e.start_date\n"
    \o "    "

\* q_month(term, year, month)
q_month(term, y, m) ==
    LET next_year == IF m = 12 THEN y + 1 ELSE y
        next_month == IF m = 12 THEN 1 ELSE m + 1
        start == FormatD(y, 4) \o "-" \o FormatD(m, 2) \o "-01"
        end == FormatD(next_year, 4) \o "-" \o FormatD(next_month, 2) \o "-01"
    IN [q |-> Q_MONTH, params |-> [term |-> term, start |-> Str(start), end |-> Str(end)]]

\* a normalized plan whose one filter is month_eq(y, m)
MonthPlan(y, m) ==
    Obj([intent |-> Str("query"), term |-> Str("Fall 2025"),
         filters |-> List(<<Obj([type |-> Str("month_eq"), year |-> Num(y), month |-> Num(m)])>>),
         group_by |-> List(<<>>), select |-> DEFAULT_SELECT, order_by |-> List(<<>>),
         limit |-> Null])

not_month == <<ask_vars, pair_vars, qa_vars, conn_vars, graph_vars, etl_vars, extract_vars>>

MonthInit ==
    /\ AskIdle
    /\ PairIdle
    /\ QAIdle
    /\ ConnIdle
    /\ GraphIdle
    /\ EtlIdle
    /\ ExtractIdle
    /\ year \in Years
    /\ month \in 1..12
    /\ window = NO_WINDOW

\* cypher_from_plan on the plan with the month_eq filter
CompileMonthEq ==
    /\ window.via = ""
    /\ LET r == cypher_from_plan(MonthPlan(year, month)) IN
         window' = [via |-> "cypher_from_plan", exc |-> r.exc, q |-> r.q, params |-> r.params]
    /\ UNCHANGED <<not_month, year, month>>

\* q_month on the year and the month
QMonth ==
    /\ window.via = ""
    /\ LET r == q_month(Str("Fall 2025"), year, month) IN
         window' = [via |-> "q_month", exc |-> "", q |-> r.q, params |-> r.params]
    /\ UNCHANGED <<not_month, year, month>>

MonthNext ==
    \/ CompileMonthEq
    \/ QMonth

SpecMonth == MonthInit /\ [][MonthNext]_vars

MonthText == <<"01", "02", "03", "04", "05", "06", "07", "08", "09", "10", "11", "12">>

YearText(y) ==
    CASE y = 999 -> "0999" [] y = 1000 -> "1000" [] y = 2024 -> "2024" [] y = 2025 -> "2025"
      [] y = 2026 -> "2026" [] y = 9999 -> "9999" [] y = 10000 -> "10000"

\* the first day of the month, and of the calendar month after it
ClaimedStart == YearText(year) \o "-" \o MonthText[month] \o "-01"

ClaimedEnd ==
    IF month = 12 THEN YearText(year + 1) \o "-01-01"
    ELSE YearText(year) \o "-" \o MonthText[month + 1] \o "-01"

\* C11: for every year and every month in 1..12, the month_eq filter (and
\* q_month) compiles, raising nothing, to start = the first day of the month
\* and end = the first day of the following calendar month, December rolling
\* over to January 1 of the next year, with the clause
\* start_date >= start AND start_date < end.
C11_MonthWindowHalfOpen ==
    window.via # "" =>
        /\ window.exc = ""
        /\ window.params.start = Str(ClaimedStart)
        /\ window.params.end = Str(ClaimedEnd)
        /\ window.via = "cypher_from_plan" =>
              window.q = "MATCH (:Term {name:$term})-[:HAS_EVENT]->(e:Event)\n"
                         \o "WHERE e.start_date >= date($start) AND e.start_date < date($end)\n"
                         \o "RETURN e.name AS name, toString(e.start_date) AS start_date, "
                         \o "toString(e.end_date) AS end_date, e.source AS source\n"
                         \o "ORDER BY e.start_date ASC\n"
        /\ window.via = "q_month" => window.q = Q_MONTH

\* C11: December 2025 has been compiled from a month_eq filter, to a window
\* that ends on 2026-01-01.
C11_Witness ==
    /\ window.via = "cypher_from_plan"
    /\ year = 2025
    /\ month = 12
    /\ window.params.start = Str("2025-12-01")
    /\ window.params.end = Str("2026-01-01")

(***************************************************************************)
(* Two plans of one shape: the planner's JSON filled with two sets of      *)
(* values, each validated and then compiled.                               *)
(***************************************************************************)

not_pair == <<ask_vars, month_vars, qa_vars, conn_vars, graph_vars, etl_vars, extract_vars>>

\* the values a plan carries
Worlds ==
    { [term |-> Str("Fall 2025"), anchor |-> Str("classes start"), weekday |-> Str("Monday"),
       year |-> Num(2025), month |-> Num(12),
       start |-> Str("2025-09-01"), end |-> Str("2025-09-30")],
      [term |-> Str("Spring 2026"), anchor |-> Str("Reading Day"), weekday |-> Str("Friday"),
       year |-> Num(2026), month |-> Num(5),
       start |-> Str("2026-01-10"), end |-> Str("2026-02-01")],
      [term |-> Str("x'}) DETACH DELETE e //"), anchor |-> Str("' or 1=1 //"),
       weekday |-> Num(1), year |-> Str("2025"), month |-> Num(1),
       start |-> Str("') OR true //"), end |-> Null] }

\* the filter of one kind with the values of w
Fill(kind, w) ==
    Prune([F(kind) EXCEPT
        !.anchor_event = IF kind \in ANCHOR_KINDS THEN w.anchor ELSE Absent,
        !.weekday = IF kind = "weekday_in" THEN w.weekday ELSE Absent,
        !.year = IF kind = "month_eq" THEN w.year ELSE Absent,
        !.month = IF kind = "month_eq" THEN w.month ELSE Absent,
        !.start = IF kind = "date_window" THEN w.start ELSE Absent,
        !.end = IF kind = "date_window" THEN w.end ELSE Absent])

\* the kinds of the filters of a plan, in order
KindLists == UNION { [1..n -> FILTER_KINDS] : n \in 0..MaxFilters }

\* the keys of a plan that are not values
Shapes ==
    { [kinds |-> ks, order_by |-> o, select |-> sel] :
        ks \in KindLists,
        o \in {Absent, List(<<Obj([field |-> Str("name"), dir |-> Str("DESC")])>>)},
        sel \in {Absent, List(<<Str("start_date"), Str("name")>>)} }

\* the planner's JSON of shape sh with the values of w
ShapedPlan(sh, w) ==
    MkPlan([intent |-> Str("query"), term |-> w.term, missing |-> Absent],
           List([i \in 1..Len(sh.kinds) |-> Fill(sh.kinds[i], w)]),
           Absent, sh.order_by, sh.select, Absent)

PairInit ==
    /\ AskIdle
    /\ MonthIdle
    /\ QAIdle
    /\ ConnIdle
    /\ GraphIdle
    /\ EtlIdle
    /\ ExtractIdle
    /\ \E sh \in Shapes, wa \in Worlds, wb \in Worlds :
          /\ run_a = [NO_RUN EXCEPT !.pc = "planned", !.plan = ShapedPlan(sh, wa)]
          /\ run_b = [NO_RUN EXCEPT !.pc = "planned", !.plan = ShapedPlan(sh, wb)]

Validated_SharedTerm(run) ==
    LET r == validate_and_fix_plan(run.plan) IN
    IF r.exc # "" THEN [run EXCEPT !.exc = r.exc]
    ELSE IF run_b.pc = "compiled" /\ IsQueryPlan(r.plan)
    THEN [run EXCEPT !.pc = "validated", !.plan = Obj([r.plan.o EXCEPT !.term = run_b.params.term])]
    ELSE [run EXCEPT !.pc = "validated", !.plan = r.plan]

\* fixed_plan, err = validate_and_fix_plan(raw_plan)
Validated(run) ==
    LET r == validate_and_fix_plan(run.plan) IN
    IF r.exc # "" THEN [run EXCEPT !.exc = r.exc]
    ELSE [run EXCEPT !.pc = "validated", !.plan = r.plan]

\* cypher, params = cypher_from_plan(fixed_plan)
Compiled(run) ==
    LET r == cypher_from_plan(run.plan) IN
    IF r.exc # "" THEN [run EXCEPT !.exc = r.exc]
    ELSE [run EXCEPT !.pc = "compiled", !.q = r.q, !.params = r.params]

ValidateA ==
    /\ run_a.pc = "planned"
    /\ run_a.exc = ""
    /\ run_a' = Validated(run_a)
    /\ UNCHANGED <<not_pair, run_b>>

ValidateB ==
    /\ run_b.pc = "planned"
    /\ run_b.exc = ""
    /\ run_b' = Validated(run_b)
    /\ UNCHANGED <<not_pair, run_a>>

CompileA ==
    /\ run_a.pc = "validated"
    /\ run_a.exc = ""
    /\ run_a' = Compiled(run_a)
    /\ UNCHANGED <<not_pair, run_b>>

CompileB ==
    /\ run_b.pc = "validated"
    /\ run_b.exc = ""
    /\ run_b' = Compiled(run_b)
    /\ UNCHANGED <<not_pair, run_a>>

PairNext ==
    \/ ValidateA
    \/ ValidateB
    \/ CompileA
    \/ CompileB

SpecPair == PairInit /\ [][PairNext]_vars

\* the filter with its values taken out
Kind(f) == f.o.type

\* the two normalized plans differ at most in the term and in the values of
\* their filters
SameShape(p, q) ==
    /\ IsQueryPlan(p)
    /\ IsQueryPlan(q)
    /\ Len(p.o.filters.l) = Len(q.o.filters.l)
    /\ \A i \in 1..Len(p.o.filters.l) :
          /\ Kind(p.o.filters.l[i]) = Kind(q.o.filters.l[i])
          /\ DOMAIN p.o.filters.l[i].o = DOMAIN q.o.filters.l[i].o
    /\ \A key \in {"group_by", "select", "order_by", "limit"} : p.o[key] = q.o[key]

\* C12: when cypher_from_plan returns for two normalized plans that differ
\* only in their values (term, anchor event, weekday, month_eq year and
\* month, date_window start and end), the two query texts are identical, and
\* each term is in its parameter map.
C12_TextIndependentOfValues ==
    (/\ run_a.pc = "compiled"
     /\ run_b.pc = "compiled"
     /\ SameShape(run_a.plan, run_b.plan)) =>
        /\ run_a.q = run_b.q
        /\ run_a.params.term = run_a.plan.o.term
        /\ run_b.params.term = run_b.plan.o.term

\* C12: two plans with an anchor_exact and a weekday_in filter, with
\* different terms, anchors and weekdays, have both been compiled.
C12_Witness ==
    /\ run_a.pc = "compiled"
    /\ run_b.pc = "compiled"
    /\ SameShape(run_a.plan, run_b.plan)
    /\ Len(run_a.plan.o.filters.l) = 2
    /\ Kind(run_a.plan.o.filters.l[1]) = Str("anchor_exact")
    /\ Kind(run_a.plan.o.filters.l[2]) = Str("weekday_in")
    /\ run_a.params.term # run_b.params.term
    /\ run_a.params.anchor # run_b.params.anchor
    /\ run_a.params.weekday # run_b.params.weekday

\* the raw plan's order_by list, empty when the plan has none to iterate
RawOrderBy(p) ==
    IF "order_by" \in DOMAIN p.o /\ Truthy(p.o.order_by) /\ Iterable(p.o.order_by)
    THEN Items(p.o.order_by) ELSE <<>>

\* the entry is an object whose field is an allowed order field
HasAllowedField(ob) ==
    /\ ob.k = "obj"
    /\ "field" \in DOMAIN ob.o
    /\ ob.o.field.k = "str"
    /\ ob.o.field.s \in ALLOWED_ORDER

\* the direction C13 states for a kept entry
ClaimedDir(ob) ==
    IF "dir" \in DOMAIN ob.o /\ Truthy(ob.o.dir) THEN Str(Lower(ob.o.dir.s)) ELSE Str("asc")

\* C13: for every raw plan validated to a query plan, the normalized
\* order_by is the raw order_by restricted, in order, to the entries whose
\* field is an allowed order field, each with its direction lower-cased, or
\* asc when the raw entry gives none; entries with another field are dropped.
C13_OrderByRestrictedAndLowered ==
    [][ValidatedQuery =>
          LET kept == SelectSeq(RawOrderBy(raw_plan), HasAllowedField)
              fixed == fixed_plan'.o.order_by.l IN
          /\ Len(fixed) = Len(kept)
          /\ \A i \in 1..Len(fixed) :
                fixed[i] = Obj([field |-> kept[i].o.field, dir |-> ClaimedDir(kept[i])])]_vars

\* C13: validation has returned a query plan that keeps two of three raw
\* order entries, one with its direction lower-cased and one given asc.
C13_Witness ==
    /\ pc = "validated"
    /\ IsQueryPlan(fixed_plan)
    /\ Len(RawOrderBy(raw_plan)) = 3
    /\ fixed_plan.o.order_by.l = <<Obj([field |-> Str("start_date"), dir |-> Str("desc")]),
                                   Obj([field |-> Str("name"), dir |-> Str("asc")])>>

\* the entries of the normalized plan's select, the default when it is empty
SelectEntries(p) ==
    LET sel == IF Truthy(p.o.select) THEN p.o.select ELSE DEFAULT_SELECT IN
    IF Iterable(sel) THEN Items(sel) ELSE <<>>

IsColumn(c) == c \in {Str("name"), Str("start_date"), Str("end_date"), Str("source")}

\* the column C14 states for a select entry
ClaimedColumn(c) ==
    CASE c = Str("name") -> "e.name AS name"
      [] c = Str("start_date") -> "toString(e.start_date) AS start_date"
      [] c = Str("end_date") -> "toString(e.end_date) AS end_date"
      [] c = Str("source") -> "e.source AS source"

IsSortKey(ob) == ob.o.field \in {Str("start_date"), Str("end_date"), Str("name")}

\* the RETURN line C14 states
ClaimedReturn(p) ==
    LET cols == SelectSeq(SelectEntries(p), IsColumn)
        g == p.o.group_by.l IN
    "RETURN "
    \o Join([i \in 1..Len(cols) |-> ClaimedColumn(cols[i])]
            \o (IF \E i \in 1..Len(g) : g[i] = Str("iso_week")
                THEN <<"e.start_date.week AS iso_week">> ELSE <<>>)
            \o (IF \E i \in 1..Len(g) : g[i] = Str("iso_year")
                THEN <<"e.start_date.year AS iso_year">> ELSE <<>>), ", ")
    \o "\n"

\* the ORDER BY line C14 states
ClaimedOrderBy(p) ==
    LET keys == SelectSeq(p.o.order_by.l, IsSortKey) IN
    IF Len(p.o.order_by.l) = 0 THEN "ORDER BY e.start_date ASC\n"
    ELSE IF Len(keys) = 0 THEN ""
    ELSE "ORDER BY "
         \o Join([i \in 1..Len(keys) |-> "e." \o keys[i].o.field.s \o " " \o Upper(keys[i].o.dir.s)],
                 ", ")
         \o "\n"

\* the MATCH and WHERE lines of the query of a plan
QueryHead(p) == LET wc == WhereClauses(p) IN wc.prelude \o WhereStr(wc.where)

\* C14: for every normalized plan with no pairwise filter, cypher_from_plan
\* returns a query whose RETURN line holds, in select order, one column for
\* each select entry among name, start_date, end_date and source, then the
\* iso_week and iso_year columns group_by asks for, and whose ORDER BY holds
\* the order_by entries with a sort key, start_date ASC when order_by is
\* empty.
C14_ProjectionAndOrder ==
    (/\ pc \notin {"start", "planned"}
     /\ err = Null
     /\ IsQueryPlan(fixed_plan)
     /\ ~HasKind(fixed_plan, {"same_day_pairs", "overlap_pairs"})) =>
        /\ pc = "validated" => exc = ""
        /\ pc # "validated" =>
              compiled.q = QueryHead(fixed_plan) \o ClaimedReturn(fixed_plan)
                           \o ClaimedOrderBy(fixed_plan)

(***************************************************************************)
(* neo4j_qa.py: the rule-based pipeline.  Question parsing.                *)
(***************************************************************************)

\* sub in s
Contains(s, sub) == \E i \in 1..(Len(s) - Len(sub) + 1) : SubSeq(s, i, i + Len(sub) - 1) = sub

UPPER_CASE == "ABCDEFGHIJKLMNOPQRSTUVWXYZ"
LOWER_CASE == "abcdefghijklmnopqrstuvwxyz"

LowerChar(c) ==
    IF \E i \in 1..Len(UPPER_CASE) : SubSeq(UPPER_CASE, i, i) = c
    THEN LET i == CHOOSE j \in 1..Len(UPPER_CASE) : SubSeq(UPPER_CASE, j, j) = c
         IN SubSeq(LOWER_CASE, i, i)
    ELSE c

RECURSIVE ToLower(_)
\* question.lower()
ToLower(s) == IF Len(s) = 0 THEN "" ELSE LowerChar(SubSeq(s, 1, 1)) \o ToLower(SubSeq(s, 2, Len(s)))

WEEKDAYS == <<"Monday", "Tuesday", "Wednesday", "Thursday", "Friday", "Saturday", "Sunday">>

MONTHS == <<"january", "february", "march", "april", "may", "june",
            "july", "august", "september", "october", "november", "december">>

\* extract_term(question) of neo4j_qa.py, on the questions of the model: the
\* one season and year they can name
qa_extract_term(text) ==
    IF Contains(ToLower(text), "spring 2026") THEN Str("Spring 2026") ELSE Null

\* extract_weekday(question): the first weekday of WEEKDAYS the text names
extract_weekday(text) ==
    LET ql == ToLower(text)
        hit(i) == Contains(ql, ToLower(WEEKDAYS[i])) \/ Contains(ql, ToLower(WEEKDAYS[i]) \o "s")
    IN IF \E i \in 1..Len(WEEKDAYS) : hit(i)
       THEN Str(WEEKDAYS[CHOOSE i \in 1..Len(WEEKDAYS) : hit(i) /\ \A j \in 1..(i - 1) : ~hit(j)])
       ELSE Null

IsDigit(c) == \E d \in 0..9 : Digit(d) = c

IsWordChar(c) == IsDigit(c) \/ c = "_" \/ Contains(LOWER_CASE, c) \/ Contains(UPPER_CASE, c)

\* re.search(r"\b(20\d{2})\b", ql) matches at position i
YearAt(ql, i) ==
    /\ i + 3 <= Len(ql)
    /\ SubSeq(ql, i, i + 1) = "20"
    /\ IsDigit(SubSeq(ql, i + 2, i + 2))
    /\ IsDigit(SubSeq(ql, i + 3, i + 3))
    /\ (i = 1 \/ ~IsWordChar(SubSeq(ql, i - 1, i - 1)))
    /\ (i + 3 = Len(ql) \/ ~IsWordChar(SubSeq(ql, i + 4, i + 4)))

DigitValue(c) == CHOOSE d \in 0..9 : Digit(d) = c

\* extract_month(question): (year, month), None without a month name or
\* without a year 20xx
extract_month(text) ==
    LET ql == ToLower(text)
        named(m) == Contains(ql, MONTHS[m])
    IN IF ~(\E m \in 1..Len(MONTHS) : named(m)) THEN Null
       ELSE IF ~(\E i \in 1..Len(ql) : YearAt(ql, i)) THEN Null
       ELSE LET m == CHOOSE k \in 1..Len(MONTHS) : named(k) /\ \A j \in 1..(k - 1) : ~named(j)
                i == CHOOSE k \in 1..Len(ql) : YearAt(ql, k) /\ \A j \in 1..(k - 1) : ~YearAt(ql, j)
            IN [k |-> "tuple", year |-> 2000 + 10 * DigitValue(SubSeq(ql, i + 2, i + 2))
                              + DigitValue(SubSeq(ql, i + 3, i + 3)),
                      month |-> m]

\* detect_anchor(question)
detect_anchor(text) ==
    LET ql == ToLower(text) IN
    IF Contains(ql, "classes end") \/ Contains(ql, "class end") \/ Contains(ql, "end of classes")
    THEN Str("Classes End")
    ELSE IF Contains(ql, "classes begin") \/ Contains(ql, "classes start")
            \/ Contains(ql, "start of classes")
    THEN Str("Classes Begin")
    ELSE Null

classify_intent_WeekdayFirst(text) ==
    LET ql == ToLower(text) IN
    IF Truthy(extract_weekday(text)) THEN "weekday"
    ELSE IF Contains(ql, "overlap") \/ Contains(ql, "overlapping") THEN "overlaps"
    ELSE IF Contains(ql, "same day") \/ Contains(ql, "same-day") THEN "same_day"
    ELSE IF Contains(ql, "after") /\ Truthy(detect_anchor(text)) THEN "after_anchor"
    ELSE IF Contains(ql, "before") /\ Truthy(detect_anchor(text)) THEN "before_anchor"
    ELSE IF Contains(ql, "start") /\ Contains(ql, "class") THEN "classes_start"
    ELSE IF extract_month(text) # Null THEN "month"
    ELSE "all_events"

\* classify_intent(question)
classify_intent(text) ==
    LET ql == ToLower(text) IN
    IF Contains(ql, "overlap") \/ Contains(ql, "overlapping") THEN "overlaps"
    ELSE IF Contains(ql, "same day") \/ Contains(ql, "same-day") THEN "same_day"
    ELSE IF Contains(ql, "after") /\ Truthy(detect_anchor(text)) THEN "after_anchor"
    ELSE IF Contains(ql, "before") /\ Truthy(detect_anchor(text)) THEN "before_anchor"
    ELSE IF Contains(ql, "start") /\ Contains(ql, "class") THEN "classes_start"
    ELSE IF Truthy(extract_weekday(text)) THEN "weekday"
    ELSE IF extract_month(text) # Null THEN "month"
    ELSE "all_events"

\* the query templates
Q_CLASSES_START ==
    "\n"
    \o "    MATCH (:Term {name:$term})-[:HAS_EVENT]->(e:Event)\n"
    \o "    WHERE toLower(e.name) = 'classes begin'\n"
    \o "    RETURN\n"
    \o "      e.name                 AS name,\n"
    \o "      toString(e.start_date) AS start_date,\n"
    \o "      toString(e.end_date)   AS end_date,\n"
    \o "      e.start_weekday        AS weekday,\n"
    \o "      e.source               AS source\n"
    \o "    "

Q_AFTER_ANCHOR ==
    "\n"
    \o "    MATCH (:Term {name:$term})-[:HAS_EVENT]->(anchor:Event)\n"
    \o "    WHERE toLower(anchor.name) = toLower($anchor)\n"
    \o "    WITH anchor.start_date AS anchor_date\n"
    \o "\n"
    \o "    MATCH (:Term {name:$term})-[:HAS_EVENT]->(e:Event)\n"
    \o "    WHERE e.start_date > anchor_date\n"
    \o "    RETURN\n"
    \o "      e.name                 AS name,\n"
    \o "      toString(e.start_date) AS start_date,\n"
    \o "      toString(e.end_date)   AS end_date,\n"
    \o "      e.start_weekday        AS weekday,\n"
    \o "      e.source               AS source\n"
    \o "    ORDER BY e.start_date\n"
    \o "    "

Q_BEFORE_ANCHOR ==
    "\n"
    \o "    MATCH (:Term {name:$term})-[:HAS_EVENT]->(anchor:Event)\n"
    \o "    WHERE toLower(anchor.name) = toLower($anchor)\n"
    \o "    WITH anchor.start_date AS anchor_date\n"
    \o "\n"
    \o "    MATCH (:Term {name:$term})-[:HAS_EVENT]->(e:Event)\n"
    \o "    WHERE e.start_date < anchor_date\n"
    \o "    RETURN\n"
    \o "      e.name                 AS name,\n"
    \o "      toString(e.start_date) AS start_date,\n"
    \o "      toString(e.end_date)   AS end_date,\n"
    \o "      e.start_weekday        AS weekday,\n"
    \o "      e.source               AS source\n"
    \o "    ORDER BY e.start_date\n"
    \o "    "

Q_WEEKDAY ==
    "\n"
    \o "    MATCH (:Term {name:$term})-[:HAS_EVENT]->(e:Event)\n"
    \o "    WHERE e.start_weekday = $weekday\n"
    \o "    RETURN\n"
    \o "      e.name                 AS name,\n"
    \o "      toString(e.start_date) AS start_date,\n"
    \o "      toString(e.end_date)   AS end_date,\n"
    \o "      e.source               AS source\n"
    \o "    ORDER BY e.start_date\n"
    \o "    "

Q_OVERLAPS ==
    "\n"
    \o "    MATCH (:Term {name:$term})-[:HAS_EVENT]->(a:Event),\n"
    \o "          (:Term {name:$term})-[:HAS_EVENT]->(b:Event)\n"
    \o "    WHERE a.start_date <= b.end_date\n"
    \o "      AND b.start_date <= a.end_date\n"
    \o "      AND id(a) < id(b)\n"
    \o "    RETURN\n"
    \o "      a.name                 AS event1,\n"
    \o "      toString(a.start_date) AS a_start,\n"
    \o "      toString(a.end_date)   AS a_end,\n"
    \o "      b.name                 AS event2,\n"
    \o "      toString(b.start_date) AS b_start,\n"
    \o "      toString(b.end_date)   AS b_end\n"
    \o "    ORDER BY a_start, b_start\n"
    \o "    "

Q_SAME_DAY ==
    "\n"
    \o "    MATCH (:Term {name:$term})-[:HAS_EVENT]->(a:Event),\n"
    \o "          (:Term {name:$term})-[:HAS_EVENT]->(b:Event)\n"
    \o "    WHERE a.start_date = b.start_date\n"
    \o "      AND id(a) < id(b)\n"
    \o "    RETURN\n"
    \o "      a.name                 AS event1,\n"
    \o "      b.name                 AS event2,\n"
    \o "      toString(a.start_date) AS date\n"
    \o "    ORDER BY date\n"
    \o "    "

Q_ALL_EVENTS ==
    "\n"
    \o "    MATCH (:Term {name:$term})-[:HAS_EVENT]->(e:Event)\n"
    \o "    RETURN\n"
    \o "      e.name                 AS name,\n"
    \o "      toString(e.start_date) AS start_date,\n"
    \o "      toString(e.end_date)   AS end_date,\n"
    \o "      e.start_weekday        AS weekday,\n"
    \o "      e.source               AS source\n"
    \o "    ORDER BY e.start_date\n"
    \o "    "

(***************************************************************************)
(* neo4j_qa.py: the query templates and build_query_from_question.         *)
(***************************************************************************)

q_classes_start(term) == [q |-> Q_CLASSES_START, params |-> [term |-> Str(term)]]

q_after_anchor(term, anchor) ==
    [q |-> Q_AFTER_ANCHOR, params |-> [term |-> Str(term), anchor |-> Str(anchor)]]

q_before_anchor(term, anchor) ==
    [q |-> Q_BEFORE_ANCHOR, params |-> [term |-> Str(term), anchor |-> Str(anchor)]]

q_weekday(term, weekday) ==
    [q |-> Q_WEEKDAY, params |-> [term |-> Str(term), weekday |-> Str(weekday)]]

\* q_overlaps handing out the template of the same-day pairs
q_overlaps_SameDay(term) == [q |-> Q_SAME_DAY, params |-> [term |-> Str(term)]]

q_overlaps(term) == [q |-> Q_OVERLAPS, params |-> [term |-> Str(term)]]

q_same_day(term) == [q |-> Q_SAME_DAY, params |-> [term |-> Str(term)]]

q_all_events(term) == [q |-> Q_ALL_EVENTS, params |-> [term |-> Str(term)]]

\* f"{year}-{month:02d}"
YearMonth(ym) == Digits(ym.year) \o "-" \o FormatD(ym.month, 2)

\* build_query_from_question(question): (cypher, params, mode description,
\* intent, term)
build_query_from_question(text) ==
    LET t == qa_extract_term(text)
        term == IF Truthy(t) THEN t.s ELSE "Fall 2025"
        intent == classify_intent(text)
        anchor == detect_anchor(text)
        wd == extract_weekday(text)
        month_info == extract_month(text)
        Built(cy, desc, i) ==
            [cypher |-> cy.q, params |-> cy.params, desc |-> desc, intent |-> i, term |-> term]
    IN IF intent = "classes_start"
       THEN Built(q_classes_start(term), "Classes start date for " \o term, intent)
       ELSE IF intent = "after_anchor" /\ Truthy(anchor)
       THEN Built(q_after_anchor(term, anchor.s),
                  "Events in " \o term \o " after '" \o anchor.s \o "'", intent)
       ELSE IF intent = "before_anchor" /\ Truthy(anchor)
       THEN Built(q_before_anchor(term, anchor.s),
                  "Events in " \o term \o " before '" \o anchor.s \o "'", intent)
       ELSE IF intent = "weekday" /\ Truthy(wd)
       THEN Built(q_weekday(term, wd.s), wd.s \o " events in " \o term, intent)
       ELSE IF intent = "month" /\ month_info # Null
       THEN Built(q_month(Str(term), month_info.year, month_info.month),
                  "Events in " \o term \o " during " \o YearMonth(month_info), intent)
       ELSE IF intent = "overlaps"
       THEN Built(q_overlaps(term), "Overlapping events in " \o term, intent)
       ELSE IF intent = "same_day"
       THEN Built(q_same_day(term), "Same-day event pairs in " \o term, intent)
       ELSE Built(q_all_events(term), "All events in " \o term, "all_events")

(***************************************************************************)
(* neo4j_qa.py: build_factual_summary and answer_from_rows.                *)
(***************************************************************************)

\* str(r.get(col)): the value of the column, None when the row has none
RowGet(r, col) == IF col \in DOMAIN r THEN r[col] ELSE "None"

\* the line of one row under each heading
ClassesStartLine(r) ==
    "- Event '" \o RowGet(r, "name") \o "' on " \o RowGet(r, "start_date")
    \o " (weekday " \o RowGet(r, "weekday") \o "), end date " \o RowGet(r, "end_date") \o "."

FromToLine(r) ==
    "- '" \o RowGet(r, "name") \o "' from " \o RowGet(r, "start_date") \o " to "
    \o RowGet(r, "end_date") \o " (weekday " \o RowGet(r, "weekday") \o ")."

WeekdayLine(r) ==
    "- '" \o RowGet(r, "name") \o "' on " \o RowGet(r, "start_date")
    \o " (ends " \o RowGet(r, "end_date") \o ")."

MonthLine(r) ==
    "- '" \o RowGet(r, "name") \o "' on " \o RowGet(r, "start_date") \o " (ends "
    \o RowGet(r, "end_date") \o ", weekday " \o RowGet(r, "weekday") \o ")."

\* the dash between the dates is U+2013 in the source
OverlapLine(r) ==
    "- '" \o RowGet(r, "event1") \o "' (" \o RowGet(r, "a_start") \o "-" \o RowGet(r, "a_end")
    \o ") overlaps with '" \o RowGet(r, "event2") \o "' (" \o RowGet(r, "b_start") \o "-"
    \o RowGet(r, "b_end") \o ")."

SameDayLine(r) ==
    "- On " \o RowGet(r, "date") \o ", '" \o RowGet(r, "event1") \o "' and '"
    \o RowGet(r, "event2") \o "' occur on the same day."

\* the branch of build_factual_summary that is taken
SummaryBranch(text, intent) ==
    IF intent = "classes_start" THEN "classes_start"
    ELSE IF intent \in {"after_anchor", "before_anchor"} /\ Truthy(detect_anchor(text))
    THEN "anchor"
    ELSE IF intent = "weekday" /\ Truthy(extract_weekday(text)) THEN "weekday"
    ELSE IF intent = "month" /\ extract_month(text) # Null THEN "month"
    ELSE IF intent = "overlaps" THEN "overlaps"
    ELSE IF intent = "same_day" THEN "same_day"
    ELSE "all_events"

\* the first line: There are {n} ...
SummaryHeader(text, intent, term, n) ==
    LET b == SummaryBranch(text, intent)
        count == "There are " \o Digits(n) IN
    CASE b = "classes_start" -> count \o " 'Classes Begin' event row(s) for " \o term \o ":"
      [] b = "anchor" ->
            count \o " event row(s) in " \o term \o " that occur "
            \o (IF intent = "after_anchor" THEN "after" ELSE "before")
            \o " the anchor event '" \o detect_anchor(text).s \o "':"
      [] b = "weekday" ->
            count \o " event row(s) in " \o term \o " that start on "
            \o extract_weekday(text).s \o ":"
      [] b = "month" ->
            count \o " event row(s) in " \o term \o " during "
            \o YearMonth(extract_month(text)) \o ":"
      [] b = "overlaps" -> count \o " overlapping event pair row(s) in " \o term \o ":"
      [] b = "same_day" -> count \o " same-day event pair row(s) in " \o term \o ":"
      [] OTHER -> count \o " event row(s) for " \o term \o " in total:"

\* the line appended for one row
SummaryLine(text, intent, r) ==
    LET b == SummaryBranch(text, intent) IN
    CASE b = "classes_start" -> ClassesStartLine(r)
      [] b = "anchor" -> FromToLine(r)
      [] b = "weekday" -> WeekdayLine(r)
      [] b = "month" -> MonthLine(r)
      [] b = "overlaps" -> OverlapLine(r)
      [] b = "same_day" -> SameDayLine(r)
      [] OTHER -> FromToLine(r)

SummaryLines_SkipLast(text, intent, term, rs) ==
    <<SummaryHeader(text, intent, term, Len(rs))>>
    \o [i \in 1..(Len(rs) - 1) |-> SummaryLine(text, intent, rs[i])]

\* lines, for a non-empty list of rows
SummaryLines(text, intent, term, rs) ==
    <<SummaryHeader(text, intent, term, Len(rs))>>
    \o [i \in 1..Len(rs) |-> SummaryLine(text, intent, rs[i])]

build_factual_summary_NoZeroCase(text, intent, term, rs) ==
    Join(SummaryLines(text, intent, term, rs), "\n")

\* build_factual_summary(question, intent, term, rows)
build_factual_summary(text, intent, term, rs) ==
    IF Len(rs) = 0
    THEN "There are 0 matching events in the data for the question: " \o text
    ELSE Join(SummaryLines(text, intent, term, rs), "\n")

\* answer_from_rows without rows
NothingFound(mode_desc) ==
    "I couldn't find any matching events for that question. (" \o mode_desc \o ")"

(***************************************************************************)
(* neo4j_qa.py: main.                                                      *)
(***************************************************************************)

not_qa == <<ask_vars, month_vars, pair_vars, conn_vars, graph_vars, etl_vars, extract_vars>>

\* the words a question is made of
PHRASES ==
    <<"do any events overlap", "on the same day", "after", "before", "classes start",
      "Classes End", "start", "class", "on Mondays", "in May", "in March", "Spring 2026", "2025">>

\* the command lines: up to MaxPhrases of the phrases, in their order
ArgLists ==
    { [i \in 1..Len(ix) |-> PHRASES[ix[i]]] :
        ix \in { s \in UNION { [1..n -> 1..Len(PHRASES)] : n \in 0..MaxPhrases } :
                    \A i \in 1..(Len(s) - 1) : s[i] < s[i + 1] } }

IsSpace(c) == c \in {" ", "\t", "\n", "\r"}

RECURSIVE LStrip(_)
LStrip(s) ==
    IF Len(s) > 0 /\ IsSpace(SubSeq(s, 1, 1)) THEN LStrip(SubSeq(s, 2, Len(s))) ELSE s

RECURSIVE RStrip(_)
RStrip(s) ==
    IF Len(s) > 0 /\ IsSpace(SubSeq(s, Len(s), Len(s))) THEN RStrip(SubSeq(s, 1, Len(s) - 1))
    ELSE s

\* " ".join(sys.argv[1:]).strip()
QuestionOf(args) == LStrip(RStrip(Join(args, " ")))

\* the rows the graph may answer with
RowSamples ==
    { [name |-> "Classes Begin", start_date |-> "2025-08-25", end_date |-> "2025-08-25",
       weekday |-> "Monday", source |-> "calendar.pdf"],
      [name |-> "Reading Day", start_date |-> "2025-12-05", end_date |-> "None",
       source |-> "calendar.pdf"],
      [event1 |-> "Finals", a_start |-> "2025-12-08", a_end |-> "2025-12-12",
       event2 |-> "Grades Due", b_start |-> "2025-12-10", b_end |-> "2025-12-15"],
      [event1 |-> "Labor Day", event2 |-> "No Classes", date |-> "2025-09-01"] }

RowLists == UNION { [1..n -> RowSamples] : n \in 0..MaxSummaryRows }

INTENTS ==
    {"overlaps", "same_day", "after_anchor", "before_anchor", "weekday", "month",
     "classes_start", "all_events"}

QAInit ==
    /\ AskIdle
    /\ MonthIdle
    /\ PairIdle
    /\ ConnIdle
    /\ GraphIdle
    /\ EtlIdle
    /\ ExtractIdle
    /\ argv \in ArgLists
    /\ question = ""
    /\ qa_pc = "start"
    /\ built = NOT_BUILT
    /\ qa_rows = <<>>
    /\ summary = ""
    /\ qa_final = ""
    /\ qa_out = <<>>
    /\ qa_exit = ""
    /\ qa_calls = NO_CALLS

QARunning == qa_exit = ""

\* if len(sys.argv) < 2: print usage; sys.exit(1)
QAUsage ==
    /\ qa_pc = "start"
    /\ QARunning
    /\ Len(argv) = 0
    /\ qa_out' = Append(qa_out, "Usage: python neo4j_qa.py \"Your question here\"")
    /\ qa_exit' = "SystemExit(1)"
    /\ UNCHANGED <<not_qa, argv, question, qa_pc, built, qa_rows, summary, qa_final, qa_calls>>

\* question = ...; build_query_from_question(question); the prints up to
\* the Cypher text
QABuild ==
    /\ qa_pc = "start"
    /\ QARunning
    /\ Len(argv) > 0
    /\ question' = QuestionOf(argv)
    /\ built' = build_query_from_question(question')
    /\ qa_out' = qa_out \o <<"QUESTION: " \o question' \o "\n", "--- DECIDED MODE ---",
                             built'.desc, "--------------------\n", "--- CYPHER ---",
                             built'.cypher, "--------------\n">>
    /\ qa_pc' = "built"
    /\ UNCHANGED <<not_qa, argv, qa_rows, summary, qa_final, qa_exit, qa_calls>>

\* rows = run_cypher(cypher, params), and the rows shown
QARun ==
    /\ qa_pc = "built"
    /\ QARunning
    /\ qa_calls' = [qa_calls EXCEPT !.run_cypher = @ + 1]
    /\ \E rs \in RowLists :
          /\ qa_rows' = rs
          /\ qa_out' = qa_out
                \o (IF Len(rs) > 0
                    THEN <<"--- RAW ROWS (" \o Digits(Len(rs)) \o ") ---", "<table>">>
                    ELSE <<"--- RAW ROWS (0) ---">>)
                \o <<"---------------------\n">>
    /\ qa_pc' = "ran"
    /\ UNCHANGED <<not_qa, argv, question, built, summary, qa_final, qa_exit>>

QARunFails_Continue ==
    /\ qa_pc = "built"
    /\ QARunning
    /\ qa_calls' = [qa_calls EXCEPT !.run_cypher = @ + 1]
    /\ qa_out' = Append(qa_out, "Error while running Cypher on Neo4j: ServiceUnavailable")
    /\ qa_pc' = "ran"
    /\ UNCHANGED <<not_qa, argv, question, built, qa_rows, summary, qa_final, qa_exit>>

\* run_cypher raises: except Exception as e: print(...); sys.exit(1)
QARunFails ==
    /\ qa_pc = "built"
    /\ QARunning
    /\ qa_calls' = [qa_calls EXCEPT !.run_cypher = @ + 1]
    /\ qa_out' = Append(qa_out, "Error while running Cypher on Neo4j: ServiceUnavailable")
    /\ qa_exit' = "SystemExit(1)"
    /\ UNCHANGED <<not_qa, argv, question, qa_pc, built, qa_rows, summary, qa_final>>

\* final = answer_from_rows(...) without rows, and the final prints
QAAnswerNotFound ==
    /\ qa_pc = "ran"
    /\ QARunning
    /\ Len(qa_rows) = 0
    /\ qa_final' = NothingFound(built.desc)
    /\ qa_out' = qa_out \o <<"=== FINAL ANSWER ===", qa_final', "====================">>
    /\ qa_pc' = "done"
    /\ UNCHANGED <<not_qa, argv, question, built, qa_rows, summary, qa_exit, qa_calls>>

\* final = answer_from_rows(...) with rows: the summary is built, the model
\* rewrites it, and main prints the answer
QAAnswerFromLLM ==
    /\ qa_pc = "ran"
    /\ QARunning
    /\ Len(qa_rows) > 0
    /\ summary' = build_factual_summary(question, built.intent, built.term, qa_rows)
    /\ qa_calls' = [qa_calls EXCEPT !.call_ollama = @ + 1]
    /\ qa_final' = "answer"
    /\ qa_out' = qa_out \o <<"=== FINAL ANSWER ===", "answer", "====================">>
    /\ qa_pc' = "done"
    /\ UNCHANGED <<not_qa, argv, question, built, qa_rows, qa_exit>>

\* final = answer_from_rows(...) with rows: call_ollama raises
QAAnswerFails ==
    /\ qa_pc = "ran"
    /\ QARunning
    /\ Len(qa_rows) > 0
    /\ summary' = build_factual_summary(question, built.intent, built.term, qa_rows)
    /\ qa_calls' = [qa_calls EXCEPT !.call_ollama = @ + 1]
    /\ qa_exit' = "RequestException"
    /\ UNCHANGED <<not_qa, argv, question, qa_pc, built, qa_rows, qa_final, qa_out>>

QANext ==
    \/ QAUsage
    \/ QABuild
    \/ QARun
    \/ QARunFails
    \/ QAAnswerNotFound
    \/ QAAnswerFromLLM
    \/ QAAnswerFails

SpecQA == QAInit /\ [][QANext]_vars

(***************************************************************************)
(* build_factual_summary and answer_from_rows called with any intent, term *)
(* and rows.                                                               *)
(***************************************************************************)

\* the questions of the calls
SummaryQuestions ==
    {"do any events overlap", "what happens after classes start", "events before Classes End",
     "events on Mondays", "events in March 2025", "events in March",
     "all events for Spring 2026"}

SummaryInit ==
    /\ AskIdle
    /\ MonthIdle
    /\ PairIdle
    /\ ConnIdle
    /\ GraphIdle
    /\ EtlIdle
    /\ ExtractIdle
    /\ argv = <<>>
    /\ question \in SummaryQuestions
    /\ qa_pc = "ran"
    /\ \E i \in INTENTS \cup {"holidays"}, t \in {"Fall 2025"} :
          built = [build_query_from_question(question) EXCEPT !.intent = i, !.term = t]
    /\ qa_rows \in RowLists
    /\ summary = ""
    /\ qa_final = ""
    /\ qa_out = <<>>
    /\ qa_exit = ""
    /\ qa_calls = NO_CALLS

\* build_factual_summary(question, intent, term, rows)
Summarize ==
    /\ qa_pc = "ran"
    /\ QARunning
    /\ summary = ""
    /\ summary' = build_factual_summary(question, built.intent, built.term, qa_rows)
    /\ UNCHANGED <<not_qa, argv, question, qa_pc, built, qa_rows, qa_final, qa_out, qa_exit,
                   qa_calls>>

SummaryNext ==
    \/ Summarize
    \/ QAAnswerNotFound
    \/ QAAnswerFromLLM
    \/ QAAnswerFails

SpecSummary == SummaryInit /\ [][SummaryNext]_vars

(***************************************************************************)
(* The graph connections: run_cypher (ask.py, neo4j_qa.py,                 *)
(* neo4j_templates.py) and import_via_driver (etl_and_import.py), one      *)
(* call after another, each step of a call being one action.               *)
(***************************************************************************)

not_conn == <<ask_vars, month_vars, pair_vars, qa_vars, graph_vars, etl_vars, extract_vars>>

ConnInit ==
    /\ AskIdle
    /\ MonthIdle
    /\ PairIdle
    /\ QAIdle
    /\ ConnIdle
    /\ GraphIdle
    /\ EtlIdle
    /\ ExtractIdle

driver_close_Skipped(open) == open

\* driver.close(), and the exit of `with driver`
driver_close(open) == open - 1

\* the exit of `with driver.session() as s`
session_exit(open) == open - 1

\* the call has ended: it returned, or raised the pending exception
Ended(outcome) == Append(conn_outcomes, outcome)

\* run_cypher: driver = GraphDatabase.driver(...)
RcDriver ==
    /\ conn_pc = "idle"
    /\ Len(conn_outcomes) < MaxCalls
    /\ drivers_open' = drivers_open + 1
    /\ conn_pc' = "rc_try"
    /\ UNCHANGED <<not_conn, sessions_open, conn_pending, conn_outcomes>>

\* run_cypher: GraphDatabase.driver(...) raises, before the try
RcDriverFails ==
    /\ conn_pc = "idle"
    /\ Len(conn_outcomes) < MaxCalls
    /\ conn_outcomes' = Ended("ConfigurationError")
    /\ UNCHANGED <<not_conn, drivers_open, sessions_open, conn_pc, conn_pending>>

\* run_cypher: with driver.session() as s
RcSession ==
    /\ conn_pc = "rc_try"
    /\ sessions_open' = sessions_open + 1
    /\ conn_pc' = "rc_session"
    /\ UNCHANGED <<not_conn, drivers_open, conn_pending, conn_outcomes>>

\* run_cypher: driver.session() raises
RcSessionFails ==
    /\ conn_pc = "rc_try"
    /\ conn_pending' = "ServiceUnavailable"
    /\ conn_pc' = "rc_finally"
    /\ UNCHANGED <<not_conn, drivers_open, sessions_open, conn_outcomes>>

\* run_cypher: s.run(query, params)
RcRun ==
    /\ conn_pc = "rc_session"
    /\ conn_pc' = "rc_result"
    /\ UNCHANGED <<not_conn, drivers_open, sessions_open, conn_pending, conn_outcomes>>

\* run_cypher: s.run(query, params) raises
RcRunFails ==
    /\ conn_pc = "rc_session"
    /\ conn_pending' = "CypherSyntaxError"
    /\ conn_pc' = "rc_exit_session"
    /\ UNCHANGED <<not_conn, drivers_open, sessions_open, conn_outcomes>>

\* run_cypher: return ....data()
RcData ==
    /\ conn_pc = "rc_result"
    /\ conn_pending' = "return"
    /\ conn_pc' = "rc_exit_session"
    /\ UNCHANGED <<not_conn, drivers_open, sessions_open, conn_outcomes>>

\* run_cypher: .data() raises while it reads the results
RcDataFails ==
    /\ conn_pc = "rc_result"
    /\ conn_pending' = "SessionExpired"
    /\ conn_pc' = "rc_exit_session"
    /\ UNCHANGED <<not_conn, drivers_open, sessions_open, conn_outcomes>>

\* run_cypher: the with block is left
RcExitSession ==
    /\ conn_pc = "rc_exit_session"
    /\ sessions_open' = session_exit(sessions_open)
    /\ conn_pc' = "rc_finally"
    /\ UNCHANGED <<not_conn, drivers_open, conn_pending, conn_outcomes>>

\* run_cypher: finally: driver.close(), and the call ends
RcFinally ==
    /\ conn_pc = "rc_finally"
    /\ drivers_open' = driver_close(drivers_open)
    /\ conn_outcomes' = Ended(conn_pending)
    /\ conn_pending' = ""
    /\ conn_pc' = "idle"
    /\ UNCHANGED <<not_conn, sessions_open>>

\* import_via_driver: driver = GraphDatabase.driver(...); with driver
IvdDriver ==
    /\ conn_pc = "idle"
    /\ Len(conn_outcomes) < MaxCalls
    /\ drivers_open' = drivers_open + 1
    /\ conn_pc' = "ivd_with_driver"
    /\ UNCHANGED <<not_conn, sessions_open, conn_pending, conn_outcomes>>

\* import_via_driver: driver.session(database=db) as session
IvdSession ==
    /\ conn_pc = "ivd_with_driver"
    /\ sessions_open' = sessions_open + 1
    /\ conn_pc' = "ivd_session"
    /\ UNCHANGED <<not_conn, drivers_open, conn_pending, conn_outcomes>>

\* import_via_driver: driver.session(database=db) raises
IvdSessionFails ==
    /\ conn_pc = "ivd_with_driver"
    /\ conn_pending' = "ServiceUnavailable"
    /\ conn_pc' = "ivd_exit_driver"
    /\ UNCHANGED <<not_conn, drivers_open, sessions_open, conn_outcomes>>

\* import_via_driver: ensure_schema(session) and the UNWIND run
IvdRun ==
    /\ conn_pc = "ivd_session"
    /\ conn_pending' = "return"
    /\ conn_pc' = "ivd_exit_session"
    /\ UNCHANGED <<not_conn, drivers_open, sessions_open, conn_outcomes>>

\* import_via_driver: one of the session.run calls raises
IvdRunFails ==
    /\ conn_pc = "ivd_session"
    /\ conn_pending' = "ClientError"
    /\ conn_pc' = "ivd_exit_session"
    /\ UNCHANGED <<not_conn, drivers_open, sessions_open, conn_outcomes>>

\* import_via_driver: the session's with is left
IvdExitSession ==
    /\ conn_pc = "ivd_exit_session"
    /\ sessions_open' = session_exit(sessions_open)
    /\ conn_pc' = "ivd_exit_driver"
    /\ UNCHANGED <<not_conn, drivers_open, conn_pending, conn_outcomes>>

\* import_via_driver: the driver's with is left, and the call ends
IvdExitDriver ==
    /\ conn_pc = "ivd_exit_driver"
    /\ drivers_open' = driver_close(drivers_open)
    /\ conn_outcomes' = Ended(conn_pending)
    /\ conn_pending' = ""
    /\ conn_pc' = "idle"
    /\ UNCHANGED <<not_conn, sessions_open>>

ConnNext ==
    \/ RcDriver
    \/ RcDriverFails
    \/ RcSession
    \/ RcSessionFails
    \/ RcRun
    \/ RcRunFails
    \/ RcData
    \/ RcDataFails
    \/ RcExitSession
    \/ RcFinally
    \/ IvdDriver
    \/ IvdSession
    \/ IvdSessionFails
    \/ IvdRun
    \/ IvdRunFails
    \/ IvdExitSession
    \/ IvdExitDriver

SpecConn == ConnInit /\ [][ConnNext]_vars


\* ---------------------------------------------------------------------------
\* classify_intent: the precedence of its checks

\* the checks in the order of precedence, each with the intent it gives
ClaimedChecks(text) ==
    LET ql == ToLower(text)
    IN  << [holds |-> Contains(ql, "overlap"), intent |-> "overlaps"],
           [holds |-> Contains(ql, "same day") \/ Contains(ql, "same-day"),
            intent |-> "same_day"],
           [holds |-> Contains(ql, "after") /\ detect_anchor(text) # Null,
            intent |-> "after_anchor"],
           [holds |-> Contains(ql, "before") /\ detect_anchor(text) # Null,
            intent |-> "before_anchor"],
           [holds |-> Contains(ql, "start") /\ Contains(ql, "class"),
            intent |-> "classes_start"],
           [holds |-> extract_weekday(text) # Null, intent |-> "weekday"],
           [holds |-> extract_month(text) # Null, intent |-> "month"] >>

Holding(text) ==
    LET cs == ClaimedChecks(text) IN { i \in 1..Len(cs) : cs[i].holds }

ClaimedIntent(text) ==
    LET cs == ClaimedChecks(text)
        hs == { i \in 1..Len(cs) : cs[i].holds }
    IN  IF hs = {} THEN "all_events"
        ELSE cs[CHOOSE i \in hs : \A j \in hs : i <= j].intent

\* C15: classify_intent returns the intent of the first check that holds in
\* the order overlap, same day, after with an anchor, before with an anchor,
\* start together with class, a weekday, a month with a year, and all_events
\* when none holds; a question satisfying several checks gets the earliest.
C15_IntentPrecedence ==
    qa_pc = "built" =>
        LET claimed == ClaimedIntent(question)
        IN  /\ classify_intent(question) = claimed
            /\ built.intent = claimed

\* a question is classified by its third check while two later checks hold too
C15_Witness ==
    /\ qa_pc = "built"
    /\ built.intent = "after_anchor"
    /\ Cardinality(Holding(question)) >= 3

\* a month named without a year does not make the month check hold
C15_WitnessDefault ==
    /\ qa_pc = "built"
    /\ built.intent = "all_events"
    /\ Contains(ToLower(question), "march")


\* ---------------------------------------------------------------------------
\* The summary of no rows

\* the fixed beginning of the zero-result sentence
ZERO_RESULT_PHRASE == "There are 0 matching events"

\* the fixed beginning of the answer given without rows
NOT_FOUND_PHRASE == "I couldn't find any matching events"

StartsWith(s, prefix) == Len(s) >= Len(prefix) /\ SubSeq(s, 1, Len(prefix)) = prefix

\* the digits written in s
DigitsIn(s) == { SubSeq(s, i, i) : i \in { j \in 1..Len(s) : IsDigit(SubSeq(s, j, j)) } }

\* what the sentence says besides repeating the question
BesidesQuestion(s, text) ==
    IF Len(s) >= Len(text) /\ SubSeq(s, Len(s) - Len(text) + 1, Len(s)) = text
    THEN SubSeq(s, 1, Len(s) - Len(text))
    ELSE s

\* C16: for every intent, term and question, the summary of an empty row
\* list is the fixed zero-result sentence: it begins with the same phrase
\* for all intents, differs between calls by the repeated question only, and
\* states no count other than 0; the answer given without rows is a fixed
\* sentence too, the same for all intents up to the mode description.
C16_ZeroRowsFixedSentence ==
    /\ (summary # "" /\ Len(qa_rows) = 0) =>
            /\ StartsWith(summary, ZERO_RESULT_PHRASE)
            /\ summary = ZERO_RESULT_PHRASE \o " in the data for the question: " \o question
            /\ DigitsIn(BesidesQuestion(summary, question)) = {"0"}
    /\ (qa_pc = "done" /\ Len(qa_rows) = 0) =>
            /\ StartsWith(qa_final, NOT_FOUND_PHRASE)
            /\ qa_final = NOT_FOUND_PHRASE \o " for that question. (" \o built.desc \o ")"

\* the summary of no rows was built for an intent that enumerates pairs
C16_Witness ==
    /\ summary # ""
    /\ Len(qa_rows) = 0
    /\ built.intent = "overlaps"
    /\ question = "events in March 2025"


\* ---------------------------------------------------------------------------
\* The summary of rows

\* the positions of the line ends in s
LineEnds(s) == { i \in 1..Len(s) : SubSeq(s, i, i) = "\n" }

\* the lines of s
SplitLines(s) ==
    LET ends == LineEnds(s)
        n == Cardinality(ends)
        \* the k-th line end, with 0 before the text and Len(s) + 1 after it
        EndAt(k) == IF k = 0 THEN 0
                    ELSE IF k = n + 1 THEN Len(s) + 1
                    ELSE CHOOSE i \in ends : Cardinality({ j \in ends : j <= i }) = k
    IN  [k \in 1..(n + 1) |-> SubSeq(s, EndAt(k - 1) + 1, EndAt(k) - 1)]

\* the line the summary gives for one row on its own
LineOfRow(text, intent, term, r) == SplitLines(build_factual_summary(text, intent, term, <<r>>))[2]

\* C17: for every intent and every non-empty row list of length n (values
\* without line breaks), build_factual_summary returns a header line stating
\* the count n followed by exactly n lines, one per row (one per pair for
\* overlaps and same_day), in the order of the rows.
C17_HeaderCountAndOneLinePerRow ==
    (summary # "" /\ Len(qa_rows) > 0) =>
        LET lines == SplitLines(summary)
            n == Len(qa_rows)
        IN  /\ Len(lines) = n + 1
            /\ StartsWith(lines[1], "There are " \o Digits(n) \o " ")
            /\ \A i \in 1..n :
                  /\ lines[i + 1] = LineOfRow(question, built.intent, built.term, qa_rows[i])
                  /\ StartsWith(lines[i + 1], "- ")

\* two different pairs were summarised for the overlaps intent
C17_Witness ==
    /\ summary # ""
    /\ Len(qa_rows) = 2
    /\ qa_rows[1] # qa_rows[2]
    /\ built.intent = "overlaps"
    /\ "event1" \in DOMAIN qa_rows[1]
    /\ "event1" \in DOMAIN qa_rows[2]


\* ---------------------------------------------------------------------------
\* plan_question_with_llm when the planner fails

\* the plan claimed for a failed planner
IsClaimedFallback(plan, text) ==
    IF Truthy(extract_term(text))
    THEN /\ Get(plan, "intent") = Str("query")
         /\ Get(plan, "term") = extract_term(text)
         /\ Get(plan, "filters") = List(<<>>)
    ELSE /\ Get(plan, "intent") = Str("ask_clarification")
         /\ Get(plan, "missing") = List(<<Str("term")>>)

\* C18: plan_question_with_llm never crashes on a planner failure: whether
\* the planner call fails or returns text without a parsable JSON object, it
\* returns the degraded plan when the question names a term and the
\* clarification plan otherwise.
C18_PlannerFailureFallsBack ==
    [][(PlanFails \/ PlanFallback) =>
          /\ exc' = ""
          /\ pc' = "planned"
          /\ IsClaimedFallback(raw_plan', user_q)]_vars

\* the part of C18 that holds: text without a parsable JSON object gives the
\* claimed fallback plan
C18_UnparsableTextFallsBack ==
    [][PlanFallback => exc' = "" /\ pc' = "planned" /\ IsClaimedFallback(raw_plan', user_q)]_vars


(***************************************************************************)
(* Both pipelines: a request is one run of ask.py or one run of            *)
(* neo4j_qa.py.                                                            *)
(***************************************************************************)

PipelinesInit == Init \/ QAInit

PipelinesNext == Next \/ QANext

SpecPipelines == PipelinesInit /\ [][PipelinesNext]_vars

\* ---------------------------------------------------------------------------
\* The failure of the query executor

\* the request has ended on a failed run_cypher
AskExecutorFailed == pc = "compiled" /\ exc = "ServiceUnavailable"

QAExecutorFailed == qa_pc = "built" /\ qa_exit # ""

\* a line of the result rows or of the answer
IsResultLine(s) == StartsWith(s, "--- RAW ROWS") \/ StartsWith(s, "=== FINAL ANSWER")

\* what holds once the executor has failed in ask.py: the exception leaves
\* main (the traceback is the message), one executor call, no answer step (the
\* planner's call is the only model call) and nothing printed
AskFailureOutcome ==
    /\ exc # ""
    /\ run_cypher_calls = 1
    /\ ollama_calls = 1
    /\ final = ""
    /\ rows = <<>>
    /\ out = <<>>

\* what holds once the executor has failed in neo4j_qa.py: the message is
\* the last thing printed, the run exits, one executor call, no answer step,
\* no rows and no answer printed
QAFailureOutcome ==
    /\ qa_exit = "SystemExit(1)"
    /\ Len(qa_out) > 0
    /\ StartsWith(qa_out[Len(qa_out)], "Error while running Cypher on Neo4j:")
    /\ qa_calls.run_cypher = 1
    /\ qa_calls.call_ollama = 0
    /\ summary = ""
    /\ qa_final = ""
    /\ qa_rows = <<>>
    /\ \A i \in 1..Len(qa_out) : ~IsResultLine(qa_out[i])

C19_WitnessAsk == AskExecutorFailed /\ AskFailureOutcome


\* ---------------------------------------------------------------------------
\* The connections a call leaves open

\* C20: every driver and session a call opened is closed when the call
\* returns or raises, on every exit path (normal return, session creation
\* failure, query failure, failure while reading the results): between
\* calls, after any sequence of calls, no connection is open; during a call
\* the sessions are those of an open driver.
C20_NoConnectionLeftOpen ==
    /\ conn_pc = "idle" => drivers_open = 0 /\ sessions_open = 0
    /\ sessions_open <= drivers_open
    /\ drivers_open <= 1

\* MaxCalls calls have ended, by a return, by a failed session creation and
\* by a failure while the results were read
C20_Witness ==
    /\ conn_pc = "idle"
    /\ Len(conn_outcomes) = MaxCalls
    /\ \E i, j, k \in 1..Len(conn_outcomes) :
          /\ conn_outcomes[i] = "return"
          /\ conn_outcomes[j] = "ServiceUnavailable"
          /\ conn_outcomes[k] = "SessionExpired"
    /\ drivers_open = 0


(***************************************************************************)
(* The overlap-pairs query of cypher_from_plan (ask.py), q_overlaps        *)
(* (neo4j_qa.py) and t_overlaps (neo4j_templates.py), evaluated on the     *)
(* Event nodes of one term.  A date is the day of September 2025; id(e) is *)
(* the position of e in g_events, the order in which the nodes were        *)
(* inserted.                                                               *)
(***************************************************************************)

not_graph == <<ask_vars, month_vars, pair_vars, qa_vars, conn_vars, etl_vars, extract_vars>>

MaxEvents == 3

\* the events a term may hold; two nodes may carry the same properties
EVENT_POOL ==
    { [node |-> "n1", name |-> "A", start_date |-> 1, end_date |-> 5],
      [node |-> "n2", name |-> "B", start_date |-> 3, end_date |-> 10],
      [node |-> "n3", name |-> "C", start_date |-> 6, end_date |-> 6],
      [node |-> "n4", name |-> "D", start_date |-> 11, end_date |-> 12],
      [node |-> "n5", name |-> "A", start_date |-> 5, end_date |-> 6],
      [node |-> "n6", name |-> "A", start_date |-> 1, end_date |-> 5] }

\* the nodes of the term in the order of their insertion
EventLists ==
    { s \in UNION { [1..n -> EVENT_POOL] : n \in 0..MaxEvents } :
        \A i, j \in 1..Len(s) : i # j => s[i] # s[j] }

GraphInit ==
    /\ AskIdle
    /\ MonthIdle
    /\ PairIdle
    /\ QAIdle
    /\ ConnIdle
    /\ EtlIdle
    /\ ExtractIdle
    /\ g_pc = "loaded"
    /\ g_events \in EventLists
    /\ g_rows = <<>>

\* toString(d) of a date
DateToString(d) == "2025-09-" \o FormatD(d, 2)

OverlapWhere_NoIdOrder(a, b, id_a, id_b) ==
    a.start_date <= b.end_date /\ b.start_date <= a.end_date

\* WHERE a.start_date <= b.end_date AND b.start_date <= a.end_date AND id(a) < id(b)
OverlapWhere(a, b, id_a, id_b) ==
    a.start_date <= b.end_date /\ b.start_date <= a.end_date /\ id_a < id_b

\* MATCH (..)-[:HAS_EVENT]->(a:Event), (..)-[:HAS_EVENT]->(b:Event) WHERE ...:
\* the bindings of a and b; one MATCH uses a relationship once
OverlapMatches(evs) ==
    { m \in (1..Len(evs)) \X (1..Len(evs)) :
        m[1] # m[2] /\ OverlapWhere(evs[m[1]], evs[m[2]], m[1], m[2]) }

\* RETURN ...: the row of a binding, kept with the binding
OverlapRow(evs, m) ==
    [a |-> m[1], b |-> m[2],
     row |-> [event1 |-> evs[m[1]].name,
              a_start |-> DateToString(evs[m[1]].start_date),
              a_end |-> DateToString(evs[m[1]].end_date),
              event2 |-> evs[m[2]].name,
              b_start |-> DateToString(evs[m[2]].start_date),
              b_end |-> DateToString(evs[m[2]].end_date)]]

\* ORDER BY a_start, b_start
OrderedBefore(evs, m, n) ==
    \/ evs[m[1]].start_date < evs[n[1]].start_date
    \/ evs[m[1]].start_date = evs[n[1]].start_date /\ evs[m[2]].start_date <= evs[n[2]].start_date

\* the orders in which the rows may come: rows with equal keys in any order
RECURSIVE OrderedRows(_, _)
OrderedRows(evs, ms) ==
    IF ms = {} THEN {<<>>}
    ELSE UNION { { <<OverlapRow(evs, m)>> \o rest : rest \in OrderedRows(evs, ms \ {m}) } :
                 m \in { x \in ms : \A y \in ms : OrderedBefore(evs, x, y) } }

\* the query runs, from the pipeline named by via
RunOverlapQuery(via) ==
    /\ g_pc = "loaded"
    /\ g_rows' \in OrderedRows(g_events, OverlapMatches(g_events))
    /\ g_pc' = via
    /\ UNCHANGED <<not_graph, g_events>>

\* ask.py: run_cypher of the overlap_pairs query of cypher_from_plan
AskOverlaps == RunOverlapQuery("ask")

\* neo4j_qa.py: run_cypher of q_overlaps
QAOverlaps == RunOverlapQuery("neo4j_qa")

\* neo4j_templates.py: t_overlaps
TemplateOverlaps == RunOverlapQuery("neo4j_templates")

GraphNext ==
    \/ AskOverlaps
    \/ QAOverlaps
    \/ TemplateOverlaps

SpecGraph == GraphInit /\ [][GraphNext]_vars

\* ---------------------------------------------------------------------------
\* the pairs of the overlap query

Intersect(a, b) == a.start_date <= b.end_date /\ b.start_date <= a.end_date

\* the unordered pairs of distinct nodes whose intervals intersect
IntersectingPairs(evs) ==
    { {i, j} : i, j \in 1..Len(evs) } \cap
    { pr \in SUBSET (1..Len(evs)) :
        Cardinality(pr) = 2 /\ \A i, j \in pr : Intersect(evs[i], evs[j]) }

RowsOf(pr) == { k \in 1..Len(g_rows) : {g_rows[k].a, g_rows[k].b} = pr }

\* C21: for every set of events of a term (distinct nodes, start_date <=
\* end_date) in any insertion order, the overlap-pairs query returns each
\* unordered pair of distinct events whose intervals intersect exactly once,
\* never an event paired with itself and never both (A,B) and (B,A); for
\* A[09-01,09-05] and B[09-03,09-10] alone it returns exactly one row, naming
\* A and B.
C21_EachOverlappingPairOnce ==
    g_pc # "loaded" /\ g_pc # "off" =>
        /\ \A k \in 1..Len(g_rows) :
              /\ g_rows[k].a # g_rows[k].b
              /\ {g_rows[k].a, g_rows[k].b} \in IntersectingPairs(g_events)
        /\ \A pr \in IntersectingPairs(g_events) : Cardinality(RowsOf(pr)) = 1
        /\ Len(g_rows) = Cardinality(IntersectingPairs(g_events))
        /\ { g_events[i].node : i \in 1..Len(g_events) } = {"n1", "n2"} =>
              /\ Len(g_rows) = 1
              /\ {g_rows[1].row.event1, g_rows[1].row.event2} = {"A", "B"}

\* B was inserted before A, and the query returned their one pair
C21_Witness ==
    /\ g_pc = "neo4j_qa"
    /\ Len(g_events) = 2
    /\ g_events[1].node = "n2"
    /\ g_events[2].node = "n1"
    /\ Len(g_rows) = 1


\* ---------------------------------------------------------------------------
\* Two requests processed at the same time

\* the step a request takes when it is processed alone
AloneStep(run) ==
    IF run.pc = "planned"
    THEN LET r == validate_and_fix_plan(run.plan) IN
         IF r.exc # "" THEN [run EXCEPT !.exc = r.exc]
         ELSE [run EXCEPT !.pc = "validated", !.plan = r.plan]
    ELSE LET c == cypher_from_plan(run.plan) IN
         IF c.exc # "" THEN [run EXCEPT !.exc = c.exc]
         ELSE [run EXCEPT !.pc = "compiled", !.q = c.q, !.params = c.params]

not_etl == <<ask_vars, month_vars, pair_vars, qa_vars, conn_vars, graph_vars, extract_vars>>

\* the keys of MONTH_MAP
MONTH_MAP ==
    [k \in {"Jan", "Jan.", "January", "Feb", "Feb.", "February", "Mar", "Mar.", "March",
            "Apr", "Apr.", "April", "May", "Jun", "Jun.", "June", "Jul", "Jul.", "July",
            "Aug", "Aug.", "August", "Sep", "Sep.", "Sept.", "September", "Oct", "Oct.",
            "October", "Nov", "Nov.", "November", "Dec", "Dec.", "December"} |->
        CASE SubSeq(k, 1, 3) = "Jan" -> 1 [] SubSeq(k, 1, 3) = "Feb" -> 2
          [] SubSeq(k, 1, 3) = "Mar" -> 3 [] SubSeq(k, 1, 3) = "Apr" -> 4
          [] SubSeq(k, 1, 3) = "May" -> 5 [] SubSeq(k, 1, 3) = "Jun" -> 6
          [] SubSeq(k, 1, 3) = "Jul" -> 7 [] SubSeq(k, 1, 3) = "Aug" -> 8
          [] SubSeq(k, 1, 3) = "Sep" -> 9 [] SubSeq(k, 1, 3) = "Oct" -> 10
          [] SubSeq(k, 1, 3) = "Nov" -> 11 [] SubSeq(k, 1, 3) = "Dec" -> 12]

\* MONTH_PATTERN: its alternatives in the order the regex tries them, X\.?
\* being X. and then X
MONTH_PATTERN ==
    <<"Jan.", "Jan", "January", "Feb.", "Feb", "February", "Mar.", "Mar", "March",
      "Apr.", "Apr", "April", "May", "Jun.", "Jun", "June", "Jul.", "Jul", "July",
      "Aug.", "Aug", "August", "Sep.", "Sep", "Sept.", "Sept", "September",
      "Oct.", "Oct", "October", "Nov.", "Nov", "November", "Dec.", "Dec", "December">>

DOW_WORDS == <<"monday", "tuesday", "wednesday", "thursday", "friday", "saturday", "sunday">>

CharAt(s, i) == SubSeq(s, i, i)

StartsAt(s, i, w) == i + Len(w) - 1 <= Len(s) /\ SubSeq(s, i, i + Len(w) - 1) = w

\* .replace("–", "-").replace("—", "-")
RECURSIVE ReplaceDashes(_)
ReplaceDashes(s) ==
    IF Len(s) = 0 THEN ""
    ELSE (IF CharAt(s, 1) \in {"~", "^"} THEN "-" ELSE CharAt(s, 1))
         \o ReplaceDashes(SubSeq(s, 2, Len(s)))

\* \b at the gap before position i of s
WordBoundary(s, i) ==
    LET before == i > 1 /\ IsWordChar(CharAt(s, i - 1))
        after == i <= Len(s) /\ IsWordChar(CharAt(s, i))
    IN before # after

\* re.sub(rf"\b{w}\b", "", s), from position i on
RECURSIVE RemoveWordFrom(_, _, _)
RemoveWordFrom(s, w, i) ==
    IF i > Len(s) THEN ""
    ELSE IF StartsAt(s, i, w) /\ WordBoundary(s, i) /\ WordBoundary(s, i + Len(w))
    THEN RemoveWordFrom(s, w, i + Len(w))
    ELSE CharAt(s, i) \o RemoveWordFrom(s, w, i + 1)

\* for w in DOW_WORDS: low = re.sub(rf"\b{w}\b", "", low)
RECURSIVE RemoveDowWords(_, _)
RemoveDowWords(s, k) ==
    IF k > Len(DOW_WORDS) THEN s
    ELSE RemoveDowWords(RemoveWordFrom(s, DOW_WORDS[k], 1), k + 1)

\* s.split(), from position i on, word being the word read so far
RECURSIVE SplitFrom(_, _, _)
SplitFrom(s, i, word) ==
    IF i > Len(s) THEN (IF word = "" THEN <<>> ELSE <<word>>)
    ELSE IF IsSpace(CharAt(s, i))
    THEN (IF word = "" THEN <<>> ELSE <<word>>) \o SplitFrom(s, i + 1, "")
    ELSE SplitFrom(s, i + 1, word \o CharAt(s, i))

\* " ".join(s.split())
JoinSplit(s) == Join(SplitFrom(s, 1, ""), " ")

\* the first position from i on that is no whitespace
RECURSIVE SkipSpaces(_, _)
SkipSpaces(s, i) == IF i <= Len(s) /\ IsSpace(CharAt(s, i)) THEN SkipSpaces(s, i + 1) ELSE i

NO_MATCH == [found |-> FALSE, month |-> "", day |-> "", end |-> 0]

\* MD_PAIR matched at position i: (MONTH_PATTERN)\s+(\d{1,2})
MdPairAt(s, i) ==
    LET fits(k) ==
            /\ StartsAt(s, i, MONTH_PATTERN[k])
            /\ SkipSpaces(s, i + Len(MONTH_PATTERN[k])) > i + Len(MONTH_PATTERN[k])
            /\ SkipSpaces(s, i + Len(MONTH_PATTERN[k])) <= Len(s)
            /\ IsDigit(CharAt(s, SkipSpaces(s, i + Len(MONTH_PATTERN[k]))))
        ks == { k \in 1..Len(MONTH_PATTERN) : fits(k) }
    IN  IF ks = {} THEN NO_MATCH
        ELSE LET k == CHOOSE x \in ks : \A y \in ks : x <= y
                 d == SkipSpaces(s, i + Len(MONTH_PATTERN[k]))
                 last == IF d + 1 <= Len(s) /\ IsDigit(CharAt(s, d + 1)) THEN d + 1 ELSE d
             IN [found |-> TRUE, month |-> MONTH_PATTERN[k], day |-> SubSeq(s, d, last),
                 end |-> last]

\* MD_PAIR.findall(s), from position i on; a match keeps its end for .end()
RECURSIVE MdPairFindall(_, _)
MdPairFindall(s, i) ==
    IF i > Len(s) THEN <<>>
    ELSE IF MdPairAt(s, i).found
    THEN <<MdPairAt(s, i)>> \o MdPairFindall(s, MdPairAt(s, i).end + 1)
    ELSE MdPairFindall(s, i + 1)

\* int(d) of one or two digits
IntOf(d) ==
    IF Len(d) = 1 THEN DigitValue(d)
    ELSE 10 * DigitValue(CharAt(d, 1)) + DigitValue(CharAt(d, 2))

\* re.search(r"-\s*(\d{1,2})\b", after): group 1 of the first match, "" when
\* there is none
DashDayAt(s, i) ==
    IF ~(i <= Len(s) /\ CharAt(s, i) = "-") THEN ""
    ELSE LET d == SkipSpaces(s, i + 1) IN
         IF ~(d <= Len(s) /\ IsDigit(CharAt(s, d))) THEN ""
         ELSE IF d + 1 <= Len(s) /\ IsDigit(CharAt(s, d + 1)) /\ WordBoundary(s, d + 2)
         THEN SubSeq(s, d, d + 1)
         ELSE IF WordBoundary(s, d + 1) THEN SubSeq(s, d, d)
         ELSE ""

RECURSIVE DashDaySearch(_, _)
DashDaySearch(s, i) ==
    IF i > Len(s) THEN ""
    ELSE IF DashDayAt(s, i) # "" THEN DashDayAt(s, i)
    ELSE DashDaySearch(s, i + 1)

\* _fmt(mm, dd, yyyy): f"{mm:02d}-{dd:02d}-{yyyy}"
fmt(mm, dd, yyyy) == FormatD(mm, 2) \o "-" \o FormatD(dd, 2) \o "-" \o Digits(yyyy)

Returned(s) == [exc |-> "", s |-> s]

\* normalize_date_chunk(date_chunk, default_year); MONTH_MAP[m] raises
\* KeyError for a matched name that is no key
normalize_date_chunk(chunk, yyyy) ==
    LET low == ToLower(ReplaceDashes(chunk))
        s == JoinSplit(RemoveDowWords(low, 1))
        pairs == MdPairFindall(s, 1)
    IN  IF Len(pairs) >= 2
        THEN IF pairs[1].month \notin DOMAIN MONTH_MAP \/ pairs[2].month \notin DOMAIN MONTH_MAP
             THEN [exc |-> "KeyError", s |-> ""]
             ELSE Returned(fmt(MONTH_MAP[pairs[1].month], IntOf(pairs[1].day), yyyy)
                           \o " to "
                           \o fmt(MONTH_MAP[pairs[2].month], IntOf(pairs[2].day), yyyy))
        ELSE IF Len(pairs) = 1
        THEN LET after == SubSeq(s, pairs[1].end + 1, Len(s))
                 m2day == DashDaySearch(after, 1)
             IN  IF pairs[1].month \notin DOMAIN MONTH_MAP THEN [exc |-> "KeyError", s |-> ""]
                 ELSE IF m2day # ""
                 THEN Returned(fmt(MONTH_MAP[pairs[1].month], IntOf(pairs[1].day), yyyy)
                               \o " to "
                               \o fmt(MONTH_MAP[pairs[1].month], IntOf(m2day), yyyy))
                 ELSE Returned(fmt(MONTH_MAP[pairs[1].month], IntOf(pairs[1].day), yyyy))
        ELSE Returned(JoinSplit(chunk))

\* the date chunks split_event_and_date hands over: they start with a month
\* name and a day
DateChunks ==
    {"August 13", "Aug. 13", "May 5", "Sept. 1", "December  9",
     "August 13 - August 15", "Dec. 1 - Dec. 5", "October 31 ~ November 2",
     "August 13 - 15", "March 9-13", "August 13 ~ 15", "August 13 ^ 15",
     "August 13, Wednesday", "August 13 (Monday) - August 15 (Wednesday)",
     "October 1 - Friday, October 3"}

DefaultYears == {2025, 2026}

EtlInit ==
    /\ AskIdle
    /\ MonthIdle
    /\ PairIdle
    /\ QAIdle
    /\ ConnIdle
    /\ GraphIdle
    /\ ExtractIdle
    /\ date_chunk \in DateChunks
    /\ default_year \in DefaultYears
    /\ normalized = NOT_NORMALIZED

\* week2_etl.py: extract_term_rows calls normalize_date_chunk(date_chunk, year)
NormalizeWeek2 ==
    /\ normalized.week2 = ""
    /\ LET r == normalize_date_chunk(date_chunk, default_year) IN
          normalized' = [normalized EXCEPT !.week2 = IF r.exc # "" THEN r.exc ELSE r.s]
    /\ UNCHANGED <<not_etl, date_chunk, default_year>>

\* etl_and_import.py: extract_term_rows calls normalize_date_chunk(date_chunk, year)
NormalizeWeek4 ==
    /\ normalized.week4 = ""
    /\ LET r == normalize_date_chunk(date_chunk, default_year) IN
          normalized' = [normalized EXCEPT !.week4 = IF r.exc # "" THEN r.exc ELSE r.s]
    /\ UNCHANGED <<not_etl, date_chunk, default_year>>

EtlNext ==
    \/ NormalizeWeek2
    \/ NormalizeWeek4

SpecEtl == EtlInit /\ [][EtlNext]_vars


\* ---------------------------------------------------------------------------
\* the dates of a chunk

\* the dates each chunk of DateChunks names: <<month, day>> of its start and,
\* for a range, of its end
ClaimedDates ==
    [c \in DateChunks |->
        CASE c = "August 13" -> <<<<8, 13>>>>
          [] c = "Aug. 13" -> <<<<8, 13>>>>
          [] c = "May 5" -> <<<<5, 5>>>>
          [] c = "Sept. 1" -> <<<<9, 1>>>>
          [] c = "December  9" -> <<<<12, 9>>>>
          [] c = "August 13 - August 15" -> <<<<8, 13>>, <<8, 15>>>>
          [] c = "Dec. 1 - Dec. 5" -> <<<<12, 1>>, <<12, 5>>>>
          [] c = "October 31 ~ November 2" -> <<<<10, 31>>, <<11, 2>>>>
          [] c = "August 13 - 15" -> <<<<8, 13>>, <<8, 15>>>>
          [] c = "March 9-13" -> <<<<3, 9>>, <<3, 13>>>>
          [] c = "August 13 ~ 15" -> <<<<8, 13>>, <<8, 15>>>>
          [] c = "August 13 ^ 15" -> <<<<8, 13>>, <<8, 15>>>>
          [] c = "August 13, Wednesday" -> <<<<8, 13>>>>
          [] c = "August 13 (Monday) - August 15 (Wednesday)" -> <<<<8, 13>>, <<8, 15>>>>
          [] c = "October 1 - Friday, October 3" -> <<<<10, 1>>, <<10, 3>>>>]

\* MM-DD-YYYY
ClaimedDate(md, yyyy) ==
    ZeroPad(Digits(md[1]), 2) \o "-" \o ZeroPad(Digits(md[2]), 2) \o "-" \o Digits(yyyy)

ClaimedNormalized(c, yyyy) ==
    IF Len(ClaimedDates[c]) = 1 THEN ClaimedDate(ClaimedDates[c][1], yyyy)
    ELSE ClaimedDate(ClaimedDates[c][1], yyyy) \o " to " \o ClaimedDate(ClaimedDates[c][2], yyyy)

\* C23: normalize_date_chunk normalizes every date chunk that holds a month
\* name and a day to MM-DD-YYYY with the default year: one date for a single
\* `Month D`, `start to end` for a range, in both scripts; weekday words in
\* the chunk do not change the result.
C23_ChunkNormalizedToDates ==
    /\ normalized.week2 # "" => normalized.week2 = ClaimedNormalized(date_chunk, default_year)
    /\ normalized.week4 # "" => normalized.week4 = ClaimedNormalized(date_chunk, default_year)

\* what the two scripts return instead: the chunk itself, with its
\* whitespace collapsed
C23_ChunkReturnedAsIs ==
    /\ normalized.week2 # "" => normalized.week2 = JoinSplit(date_chunk)
    /\ normalized.week4 # "" => normalized.week4 = JoinSplit(date_chunk)


\* ---------------------------------------------------------------------------
\* the sort directions in the query text

RECURSIVE CommasToSpaces(_)
CommasToSpaces(s) ==
    IF Len(s) = 0 THEN ""
    ELSE (IF SubSeq(s, 1, 1) = "," THEN " " ELSE SubSeq(s, 1, 1))
         \o CommasToSpaces(SubSeq(s, 2, Len(s)))

\* the words of the ORDER BY lines of q, without ORDER BY itself
OrderWords(q) ==
    LET lines == SplitLines(q)
        ordering == SelectSeq(lines, LAMBDA l : StartsWith(l, "ORDER BY "))
        words(l) == SplitFrom(CommasToSpaces(SubSeq(l, Len("ORDER BY ") + 1, Len(l))), 1, "")
    IN  UNION { { words(ordering[i])[k] : k \in 1..Len(words(ordering[i])) } :
                i \in 1..Len(ordering) }

SORT_KEYS == {"e.start_date", "e.end_date", "e.name"}

\* C24: for every raw plan that validate_and_fix_plan turns into a query
\* plan (without a pairwise filter, whose fixed queries name no direction),
\* the ORDER BY text of the compiled query holds sort keys, each followed by
\* exactly ASC or DESC, and no other text of an order_by `dir` value.
C24_DirectionsAreAscOrDesc ==
    (/\ pc = "compiled"
     /\ ~HasKind(fixed_plan, {"same_day_pairs", "overlap_pairs"})) =>
        OrderWords(compiled.q) \subseteq (SORT_KEYS \cup {"ASC", "DESC"})

\* the part of C24 that holds: a direction other than a string never reaches
\* the query text, and the directions are upper-cased
C24_DirectionsAreUpperCased ==
    (/\ pc = "compiled"
     /\ ~HasKind(fixed_plan, {"same_day_pairs", "overlap_pairs"})) =>
        OrderWords(compiled.q) \subseteq (SORT_KEYS \cup {"ASC", "DESC", "DESCENDING"})


\* ---------------------------------------------------------------------------
\* C25: a filter's clause and the value it is evaluated against
\* ---------------------------------------------------------------------------

\* the filters of the normalized plan, in order
PlanFilters == fixed_plan.o.filters.l

\* the parameters filter f should be evaluated against: its own values
OwnParams(f) ==
    IF f.o.type = Str("weekday_in") THEN [weekday |-> f.o.weekday]
    ELSE IF f.o.type = Str("month_eq")
         THEN [start |-> Str(FormatD(f.o.year.n, 4) \o "-" \o FormatD(f.o.month.n, 2) \o "-01")]
    ELSE IF f.o.type = Str("date_window")
         THEN [win_start |-> f.o.start, win_end |-> f.o.end]
    ELSE << >>

\* C25: for every normalized plan without a pairwise filter that compiles,
\* the parameter map holds, under the names the clause of each weekday_in,
\* month_eq and date_window filter refers to, that filter's own value, also
\* when the plan holds two filters of the same kind with different values.
C25_ClauseUsesOwnFilterValue ==
    (/\ pc = "compiled"
     /\ ~HasKind(fixed_plan, {"same_day_pairs", "overlap_pairs"})) =>
        \A i \in 1..Len(PlanFilters) :
            \A k \in DOMAIN OwnParams(PlanFilters[i]) :
                /\ k \in DOMAIN compiled.params
                /\ compiled.params[k] = OwnParams(PlanFilters[i])[k]

\* C25: the same, for plans whose filters of one kind all carry one value;
\* the parameter names are per kind, so this is what the code guarantees.
C25_ClauseUsesLastFilterValue ==
    (/\ pc = "compiled"
     /\ ~HasKind(fixed_plan, {"same_day_pairs", "overlap_pairs"})) =>
        \A i \in 1..Len(PlanFilters) :
            (\A j \in (i + 1)..Len(PlanFilters) :
                PlanFilters[j].o.type # PlanFilters[i].o.type) =>
            \A k \in DOMAIN OwnParams(PlanFilters[i]) :
                /\ k \in DOMAIN compiled.params
                /\ compiled.params[k] = OwnParams(PlanFilters[i])[k]


\* ---------------------------------------------------------------------------
\* C26: the RETURN clause lists a column
\* ---------------------------------------------------------------------------

\* the RETURN line of a query text, "" when it has none
ReturnLine(q) ==
    LET lines == SplitLines(q)
        ret == SelectSeq(lines, LAMBDA l : StartsWith(l, "RETURN"))
    IN  IF Len(ret) = 0 THEN "" ELSE ret[1]

\* the characters that follow the keyword on the RETURN line, blanks left out
ReturnWords(q) ==
    LET l == ReturnLine(q)
    IN  { i \in (Len("RETURN") + 1)..Len(l) : CharAt(l, i) # " " }

\* C26: for every plan that validate_and_fix_plan outputs as a query plan
\* without a pairwise filter and that compiles, the RETURN clause of the
\* query lists at least one column, also when every entry of select is an
\* unrecognized column name and group_by is empty.
C26_ReturnListsAColumn ==
    (/\ pc = "compiled"
     /\ ~HasKind(fixed_plan, {"same_day_pairs", "overlap_pairs"})) =>
        ReturnWords(compiled.q) # {}

\* C26: the same for the plans with a recognized column in select or a
\* recognized key in group_by: there the RETURN clause lists a column.
C26_ReturnListsRecognizedColumns ==
    (/\ pc = "compiled"
     /\ ~HasKind(fixed_plan, {"same_day_pairs", "overlap_pairs"})
     /\ \/ Len(ReturnCols(Items(SelectCols(fixed_plan)))) > 0
        \/ Len(GroupCols(fixed_plan.o.group_by.l)) > 0) =>
        ReturnWords(compiled.q) # {}


\* ---------------------------------------------------------------------------
\* C27: the limit of a plan
\* ---------------------------------------------------------------------------

\* values a plan may carry as its limit
LimitValues == { Null, Num(0), Num(10), Str("5") }

\* the normalized plan was built from the raw plan's keys (the final return
\* of validate_and_fix_plan), not a clarification or the degraded plan
NormalizedFromRaw ==
    /\ pc \in {"validated", "compiled"}
    /\ HasIntent(raw_plan)
    /\ ~Truthy(err)
    /\ ~IsClarification(fixed_plan)

\* C27: validate_and_fix_plan copies the raw plan's limit into the
\* normalized plan unchanged (None when the raw plan has none), and
\* cypher_from_plan ignores it: compiling the normalized plan with any other
\* limit gives the same text and parameters (or the same exception), and no
\* compiled query holds a LIMIT clause.
C27_LimitCopiedAndIgnored ==
    /\ NormalizedFromRaw =>
          /\ fixed_plan.o.limit = Get(raw_plan, "limit")
          /\ \A lim \in LimitValues :
                cypher_from_plan([fixed_plan EXCEPT !.o.limit = lim]) = cypher_from_plan(fixed_plan)
    /\ pc = "compiled" => ~Contains(compiled.q, "LIMIT")

\* C27: a raw plan with limit 10 has been normalized and compiled
C27_Witness ==
    /\ pc = "compiled"
    /\ NormalizedFromRaw
    /\ Get(raw_plan, "limit") = Num(10)
    /\ fixed_plan.o.limit = Num(10)
    /\ compiled.q # ""


\* ---------------------------------------------------------------------------
\* C28: the intent and the template build_query_from_question returns
\* ---------------------------------------------------------------------------

\* the query template of each intent
ClaimedTemplate(intent) ==
    CASE intent = "classes_start" -> Q_CLASSES_START
      [] intent = "after_anchor" -> Q_AFTER_ANCHOR
      [] intent = "before_anchor" -> Q_BEFORE_ANCHOR
      [] intent = "weekday" -> Q_WEEKDAY
      [] intent = "month" -> Q_MONTH
      [] intent = "overlaps" -> Q_OVERLAPS
      [] intent = "same_day" -> Q_SAME_DAY
      [] intent = "all_events" -> Q_ALL_EVENTS
      [] OTHER -> ""

\* C28: for every question, build_query_from_question returns the intent
\* classify_intent computes and the query template of that intent, so the
\* template listing all events is returned only when classify_intent
\* returns all_events; the returned term is the extracted term, else
\* Fall 2025, and never empty.
C28_TemplateOfClassifiedIntent ==
    qa_pc = "built" =>
        /\ built.intent = classify_intent(question)
        /\ built.cypher = ClaimedTemplate(classify_intent(question))
        /\ built.cypher = Q_ALL_EVENTS => classify_intent(question) = "all_events"
        /\ built.term # ""
        /\ built.term = (IF qa_extract_term(question) # Null
                         THEN qa_extract_term(question).s ELSE "Fall 2025")
        /\ built.params.term = Str(built.term)

\* C28: a question classified as overlaps has been built, and so has one
\* that names no term
C28_Witness ==
    /\ qa_pc = "built"
    /\ classify_intent(question) = "overlaps"
    /\ built.cypher = Q_OVERLAPS
    /\ built.term = "Spring 2026"

\* C28: a question classified as month, guarded by the extracted month, has
\* been built with the default term
C28_WitnessGuarded ==
    /\ qa_pc = "built"
    /\ classify_intent(question) = "month"
    /\ built.cypher = Q_MONTH
    /\ qa_extract_term(question) = Null
    /\ built.term = "Fall 2025"


(***************************************************************************)
(* The month extractors: extract_month_year of ask.py and extract_month of *)
(* neo4j_qa.py, applied to one text.                                       *)
(***************************************************************************)

not_extract == <<ask_vars, month_vars, pair_vars, qa_vars, conn_vars, graph_vars, etl_vars>>

\* MONTHS of ask.py, in the order of the table
ASK_MONTHS == <<"january", "february", "march", "april", "may", "june",
                "july", "august", "september", "october", "november", "december">>

\* re.search(r"\b(20\d{2})\b", s): the year of the first match, None without one
YearSearch(s) ==
    IF ~(\E i \in 1..Len(s) : YearAt(s, i)) THEN Null
    ELSE LET i == CHOOSE k \in 1..Len(s) : YearAt(s, k) /\ \A j \in 1..(k - 1) : ~YearAt(s, j)
         IN  Num(2000 + 10 * DigitValue(SubSeq(s, i + 2, i + 2)) + DigitValue(SubSeq(s, i + 3, i + 3)))

\* for name,num in MONTHS.items(): ..., from the k-th entry on; a month
\* that is named returns only when there is a year, else the loop goes on
RECURSIVE MonthYearFrom(_, _, _)
MonthYearFrom(s, k, fallback) ==
    IF k > Len(ASK_MONTHS) THEN Null
    ELSE IF Contains(s, ASK_MONTHS[k])
    THEN LET m == YearSearch(s)
             yr == IF m # Null THEN m ELSE fallback
         IN  IF yr # Null THEN [k |-> "tuple", year |-> yr.n, month |-> k]
             ELSE MonthYearFrom(s, k + 1, fallback)
    ELSE MonthYearFrom(s, k + 1, fallback)

\* extract_month_year taking 2025 for a missing fallback year
extract_month_year_CurrentYear(text, fallback) ==
    MonthYearFrom(ToLower(text), 1, IF fallback = Null THEN Num(2025) ELSE fallback)

\* extract_month_year(text, fallback_year)
extract_month_year(text, fallback) == MonthYearFrom(ToLower(text), 1, fallback)

\* the texts handed to the extractors
ExtractTexts == { QuestionOf(a) : a \in ArgLists }

FallbackYears == { Null, Num(2024) }

ExtractInit ==
    /\ AskIdle
    /\ MonthIdle
    /\ PairIdle
    /\ QAIdle
    /\ ConnIdle
    /\ GraphIdle
    /\ EtlIdle
    /\ extract_text \in ExtractTexts
    /\ fallback_year \in FallbackYears
    /\ extracted = NOT_EXTRACTED

\* ask.py: extract_month_year(text, fallback_year)
ExtractMonthYear ==
    /\ extracted.ask = <<>>
    /\ extracted' = [extracted EXCEPT !.ask = <<extract_month_year(extract_text, fallback_year)>>]
    /\ UNCHANGED <<config, not_extract, extract_text, fallback_year>>

\* neo4j_qa.py: extract_month(question)
ExtractMonth ==
    /\ extracted.qa = <<>>
    /\ extracted' = [extracted EXCEPT !.qa = <<extract_month(extract_text)>>]
    /\ UNCHANGED <<config, not_extract, extract_text, fallback_year>>

ExtractNext == ExtractMonthYear \/ ExtractMonth

SpecExtract == ExtractInit /\ [][ExtractNext]_vars

\* (first 20xx year in the text, first month of the January..December table
\* named in the text), None without a month name or without such a year
ClaimedMonthYear(text) ==
    LET ql == ToLower(text)
        months == { m \in 1..12 : Contains(ql, MONTHS[m]) }
        starts == { i \in 1..Len(ql) : YearAt(ql, i) }
        first(S) == CHOOSE x \in S : \A y \in S : x <= y
    IN  IF months = {} \/ starts = {} THEN Null
        ELSE [k |-> "tuple",
              year |-> 2000 + 10 * DigitValue(SubSeq(ql, first(starts) + 2, first(starts) + 2))
                            + DigitValue(SubSeq(ql, first(starts) + 3, first(starts) + 3)),
              month |-> first(months)]

\* C29: for every text, extract_month_year(text, None) of ask.py returns what
\* extract_month(text) of neo4j_qa.py returns: (first 20xx year in the text,
\* first month of the table whose name occurs in the text), and None when no
\* month name or no such year occurs.
C29_ExtractorsAgree ==
    /\ (fallback_year = Null /\ extracted.ask # <<>>) =>
          extracted.ask = <<ClaimedMonthYear(extract_text)>>
    /\ extracted.qa # <<>> => extracted.qa = <<ClaimedMonthYear(extract_text)>>
    /\ (fallback_year = Null /\ extracted.ask # <<>> /\ extracted.qa # <<>>) =>
          extracted.ask = extracted.qa

\* C29: both extractors have returned (2025, 3) for a text that names May
\* before March
C29_Witness ==
    /\ fallback_year = Null
    /\ Contains(extract_text, "in May in March")
    /\ extracted.ask = <<[k |-> "tuple", year |-> 2025, month |-> 3]>>
    /\ extracted.qa = extracted.ask

\* C29: both extractors have returned None for a text that names a month
\* and no year
C29_WitnessNoYear ==
    /\ fallback_year = Null
    /\ Contains(extract_text, "in March")
    /\ extracted.ask = <<Null>>
    /\ extracted.qa = <<Null>>


\* ---------------------------------------------------------------------------
\* C30: no model call for an empty result
\* ---------------------------------------------------------------------------

\* the step of ask.py's main after the executor returned, and that of
\* neo4j_qa.py's main
AskAnswerStep == pc = "ran" /\ (pc' # pc \/ exc' # exc \/ ollama_calls' # ollama_calls)

QAAnswerStep ==
    qa_pc = "ran" /\ (qa_pc' # qa_pc \/ qa_exit' # qa_exit \/ qa_calls' # qa_calls)

C30_WitnessQA ==
    /\ qa_pc = "done"
    /\ qa_calls.run_cypher = 1
    /\ Len(qa_rows) = 0
    /\ qa_final = NothingFound(built.desc)
    /\ qa_calls.call_ollama = 0

====
